---- MODULE Spec2Model ----
(***************************************************************************)
(* Quarterly cache of MyStockTax (src/app.py): the check / refresh         *)
(* endpoints of the stock metrics (price, revenue) and of the macro        *)
(* indicators (treasury, housing inventory, mortgage delinquency), the     *)
(* month-granular freshness gate, the save / clear store helpers and the   *)
(* chart formatters.                                                       *)
(*                                                                         *)
(* Units.  A stored row's value is the tuple of its value columns.         *)
(* Revenue is counted in millions of currency units, a price in whole      *)
(* currency units, a macro indicator in hundredths.  Every chart value is  *)
(* counted in hundredths (the formatters round to 2 decimals); None is     *)
(* the empty tuple and a present value v is <<v>>.                         *)
(* A quarter key "2025Q3" is the pair <<2025, 3>>.                         *)
(* A ticker is the tuple of its characters.                                *)
(*                                                                         *)
(* Spec handles the requests one at a time, each handler as one step.      *)
(* ConcurrentSpec runs check requests on several threads, one store call   *)
(* per step.  StopSpec has the refresh requests of Spec and a refresh that *)
(* stops between its clear and its save.  FormatSpec applies the label     *)
(* generator and the chart formatters to rows drawn on every calendar      *)
(* date.  NormalizeSpec applies the provider normalizers to raw frames: a  *)
(* raw observation is << >> (null / NaN) or <<v>>, and a normalized value  *)
(* is the exact fraction <<numerator, denominator>>.                       *)
(* AdapterSpec runs the provider adapters over the outcomes of their      *)
(* provider calls.  PortfolioSpec has the add / update / delete handlers   *)
(* of the portfolio file.  ConvertSpec applies the symbol mapping and the  *)
(* quarter key builders and parsers, where a key is the tuple of its       *)
(* characters.                                                             *)
(***************************************************************************)
EXTENDS Integers, Sequences, FiniteSets, Bags, TLC

VARIABLES store, now, nreq, last, inflight, stopped, formatted, normalized, calls, stocks, converted

vars == <<store, now, nreq, last, inflight, stopped, formatted, normalized, calls, stocks,
         converted>>

\* ------------------------------------------------------------------ bounds
MaxRequests == 3
MaxTicks == 1

\* ------------------------------------------------------------ input domains
\* ASCII letters of both cases; "U+AC00" stands for a letter outside ASCII
\* (a Hangul syllable: alphabetic, without an upper-case form)
Letters == {"A", "B", "a", "b"}
Whitespace == {" "}

\* request bodies: a US ticker, a KR ticker, a stock_code of white space
\* only, and an empty stock_code
RawCodes == { <<"A", "B">>, <<"0", "1">>, <<" ">>, << >> }

StockMetrics == {"price", "revenue"}
MacroMetrics == {"treasury", "housing_inventory", "mortgage_delinquency"}
Global == <<"g", "l", "o", "b", "a", "l">>

\* quarter keys the provider may report
ProviderKeys == { <<2025, 2>>, <<2025, 3>> }

\* two observations per metric (value columns of one row)
ProviderValues(metric) ==
    CASE metric = "price"    -> << <<1>>, <<2>> >>
      [] metric = "revenue"  -> << <<250>>, <<2500>> >>
      [] metric = "treasury" -> << <<425, 430>>, <<400, 430>> >>
      [] OTHER               -> << <<310>>, <<820>> >>

\* the normalised series one provider call can return: nothing, one quarter,
\* or both quarters with a revised value for the first
Payloads(metric) ==
    { << >>,
      [k \in {<<2025, 2>>} |-> ProviderValues(metric)[1]],
      [k \in ProviderKeys |-> IF k = <<2025, 2>> THEN ProviderValues(metric)[2]
                              ELSE ProviderValues(metric)[1]] }

\* what one provider call can do: raise, or return a (possibly empty) series
Outcomes(metric) ==
    { [raised |-> TRUE, data |-> << >>] } \cup
    { [raised |-> FALSE, data |-> p] : p \in Payloads(metric) }

\* ------------------------------------------------------------------ clock
StartDate == [year |-> 2025, month |-> 12, day |-> 1]

NextMonth(d) ==
    IF d.month = 12 THEN [year |-> d.year + 1, month |-> 1, day |-> d.day]
    ELSE [year |-> d.year, month |-> d.month + 1, day |-> d.day]

MonthsSinceStart(d) == (d.year - StartDate.year) * 12 + d.month - StartDate.month

\* ------------------------------------------------------------------ tickers
RECURSIVE RemoveWhitespace(_)
RemoveWhitespace(s) ==
    IF s = << >> THEN << >>
    ELSE IF Head(s) \in Whitespace THEN RemoveWhitespace(Tail(s))
    ELSE <<Head(s)>> \o RemoveWhitespace(Tail(s))

\* ticker.isalpha() and ticker.isascii(): at least one character, every
\* character a letter, and no character outside ASCII
is_english_ticker(ticker) ==
    /\ ticker # << >>
    /\ \A i \in 1..Len(ticker) : ticker[i] \in Letters \cup {"U+AC00"}
    /\ \A i \in 1..Len(ticker) : ticker[i] # "U+AC00"

\* ------------------------------------------------------------------- store
\* The store is a bag of rows: the SERIAL id of a table is the multiplicity.
NewRow(entity, metric, key, value, date) ==
    [ entity |-> entity, metric |-> metric,
      year |-> key[1], quarter |-> key[2], value |-> value,
      cache_year |-> date.year, cache_month |-> date.month,
      last_updated |-> date ]

Select(st, P(_)) == [ r \in { x \in DOMAIN st : P(x) } |-> st[r] ]

\* tables of db_setup.TABLE_SCHEMAS carry UNIQUE(stock_code?, year, quarter);
\* economy_housing_inventory_data has no schema in the repository
HasUniqueConstraint(metric) ==
    metric \in {"price", "revenue", "treasury", "mortgage_delinquency"}

Existing(st, entity, metric, key) ==
    Select(st, LAMBDA r : /\ r.metric = metric /\ r.entity = entity
                          /\ r.year = key[1] /\ r.quarter = key[2])

\* an insert into a table without unique constraint never raises
InsertRaises_NoConstraint(st, row) == FALSE

\* insert(record).execute(): raises on a unique violation
InsertRaises(st, row) ==
    /\ HasUniqueConstraint(row.metric)
    /\ Existing(st, row.entity, row.metric, <<row.year, row.quarter>>) # EmptyBag

Insert(st, row) == st (+) SetToBag({row})

KeyLess(a, b) == a[1] < b[1] \/ (a[1] = b[1] /\ a[2] < b[2])

FirstKey(ks) == CHOOSE k \in ks : \A o \in ks : o = k \/ KeyLess(k, o)

\* a save loop that inserts without looking the key up first
RECURSIVE SaveSkipLoop_NoLookup(_, _, _, _, _, _)
SaveSkipLoop_NoLookup(acc, entity, metric, data, ks, date) ==
    IF ks = {} THEN acc
    ELSE LET k   == FirstKey(ks)
             row == NewRow(entity, metric, k, data[k], date)
             nxt == IF InsertRaises(acc.store, row) THEN acc
                    ELSE [acc EXCEPT !.store = Insert(@, row),
                                     !.saved_count = @ + 1]
         IN SaveSkipLoop_NoLookup(nxt, entity, metric, data, ks \ {k}, date)

\* a save loop that ends at the first quarter it finds stored
RECURSIVE SaveSkipLoop_StopAtExisting(_, _, _, _, _, _)
SaveSkipLoop_StopAtExisting(acc, entity, metric, data, ks, date) ==
    IF ks = {} THEN acc
    ELSE LET k   == FirstKey(ks)
             row == NewRow(entity, metric, k, data[k], date)
         IN IF Existing(acc.store, entity, metric, k) # EmptyBag
            THEN [acc EXCEPT !.skipped_count = @ + 1]
            ELSE SaveSkipLoop_StopAtExisting(
                     [acc EXCEPT !.store = Insert(@, row), !.saved_count = @ + 1],
                     entity, metric, data, ks \ {k}, date)

\* save_<metric>_to_database of the skip-if-exists families: per quarter key,
\* look the key up, skip when a row exists, insert otherwise; an exception
\* of one quarter is caught and the loop continues.  acc carries the store
\* and the saved_count / skipped_count the function keeps.
RECURSIVE SaveSkipLoop(_, _, _, _, _, _)
SaveSkipLoop(acc, entity, metric, data, ks, date) ==
    IF ks = {} THEN acc
    ELSE LET k   == FirstKey(ks)
             row == NewRow(entity, metric, k, data[k], date)
             nxt == IF Existing(acc.store, entity, metric, k) # EmptyBag
                    THEN [acc EXCEPT !.skipped_count = @ + 1]
                    ELSE IF InsertRaises(acc.store, row) THEN acc
                    ELSE [acc EXCEPT !.store = Insert(@, row),
                                     !.saved_count = @ + 1]
         IN SaveSkipLoop(nxt, entity, metric, data, ks \ {k}, date)

\* save_mortgage_delinquency_to_database: update when the key exists,
\* insert otherwise (it keeps no counters; saved_count counts its writes)
RECURSIVE SaveUpsertLoop(_, _, _, _, _, _)
SaveUpsertLoop(acc, entity, metric, data, ks, date) ==
    IF ks = {} THEN acc
    ELSE LET k   == FirstKey(ks)
             row == NewRow(entity, metric, k, data[k], date)
             old == Existing(acc.store, entity, metric, k)
             st2 == IF old # EmptyBag
                    THEN (acc.store (-) old) (+) [ r \in {row} |-> BagCardinality(old) ]
                    ELSE Insert(acc.store, row)
             nxt == [acc EXCEPT !.store = st2, !.saved_count = @ + 1]
         IN SaveUpsertLoop(nxt, entity, metric, data, ks \ {k}, date)

\* a save that replaces the rows of (entity, metric) by the fetched series
SaveToDatabase_Replace(st, entity, metric, data, date) ==
    LET kept == Select(st, LAMBDA r : ~(r.metric = metric /\ r.entity = entity))
    IN [ store |-> kept (+) SetToBag({ NewRow(entity, metric, k, data[k], date)
                                         : k \in DOMAIN data }),
         saved_count |-> Cardinality(DOMAIN data),
         skipped_count |-> 0 ]

SaveToDatabase(st, entity, metric, data, date) ==
    LET acc == [store |-> st, saved_count |-> 0, skipped_count |-> 0]
    IN IF metric = "mortgage_delinquency"
       THEN SaveUpsertLoop(acc, entity, metric, data, DOMAIN data, date)
       ELSE SaveSkipLoop(acc, entity, metric, data, DOMAIN data, date)

\* rows of (entity, metric) tagged with the month of date
TaggedRows(st, entity, metric, date) ==
    Select(st, LAMBDA r : /\ r.metric = metric /\ r.entity = entity
                          /\ r.cache_year = date.year
                          /\ r.cache_month = date.month)

\* a clear that deletes the rows of (entity, metric) of every month
ClearCache_AllMonths(st, entity, metric, date) ==
    LET gone == Select(st, LAMBDA r : r.metric = metric /\ r.entity = entity)
    IN [ store |-> st (-) gone, deleted_count |-> BagCardinality(gone) ]

\* clear_<metric>_cache_data[_for_ticker]
ClearCache(st, entity, metric, date) ==
    LET gone == TaggedRows(st, entity, metric, date)
    IN [ store |-> st (-) gone, deleted_count |-> BagCardinality(gone) ]

\* get_<metric>_database_data(period = 4)
GetDatabaseData(st, entity, metric, date) ==
    Select(st, LAMBDA r :
        /\ r.metric = metric /\ r.entity = entity
        /\ r.year >= date.year - 4
        /\ (metric \in {"housing_inventory", "mortgage_delinquency"}
              => r.year <= date.year))

\* a gate that takes rows of any month for current
CheckDatabaseData_AnyMonth(st, entity, metric, date) ==
    LET all == Select(st, LAMBDA r : r.metric = metric /\ r.entity = entity)
    IN IF all = EmptyBag THEN [has |-> FALSE, data |-> EmptyBag]
       ELSE [has |-> TRUE, data |-> all]

\* a gate that never finds the metric fresh
CheckDatabaseData_NeverFresh(st, entity, metric, date) ==
    [has |-> FALSE, data |-> EmptyBag]

\* check_<metric>_database_data: (has_current_month_data, db_data)
CheckDatabaseData(st, entity, metric, date) ==
    LET cur == TaggedRows(st, entity, metric, date)
    IN IF cur = EmptyBag THEN [has |-> FALSE, data |-> EmptyBag]
       ELSE IF metric = "mortgage_delinquency"
            THEN [has |-> TRUE, data |-> GetDatabaseData(st, entity, metric, date)]
            ELSE [has |-> TRUE, data |-> cur]

\* --------------------------------------------------------------- provider
\* hardcoded fallback tables, in hundredths
HousingFallback ==
    [ y \in 2021..2025 |->
        CASE y = 2021 -> <<420, 480, 550, 620>>
          [] y = 2022 -> <<580, 700, 900, 1050>>
          [] y = 2023 -> <<750, 620, 580, 530>>
          [] y = 2024 -> <<500, 550, 720, 850>>
          [] OTHER    -> <<780, 820, 800, 750>> ]

MortgageFallback ==
    [ y \in 2021..2025 |->
        CASE y = 2021 -> <<820, 690, 540, 460>>
          [] y = 2022 -> <<380, 320, 290, 270>>
          [] y = 2023 -> <<260, 250, 240, 250>>
          [] y = 2024 -> <<260, 270, 280, 290>>
          [] OTHER    -> <<300, 310, 320, 330>> ]

\* get_<metric>_fallback_data(years = 4)
FallbackData(base, date) ==
    [ k \in { <<y, q>> : y \in ((date.year - 4)..date.year) \cap DOMAIN base,
                         q \in 1..4 }
        |-> <<base[k[1]][k[2]]>> ]

\* a fetch step without fallback table
FetchData_NoFallback(metric, out, date) ==
    IF out.raised THEN << >> ELSE out.data

\* the fetch step of a handler: the normalised series it works with.
\* price, revenue, treasury: a raising or empty provider gives no data;
\* housing inventory, mortgage delinquency: they give the fallback table
FetchData(metric, out, date) ==
    CASE metric = "housing_inventory" ->
            IF out.raised \/ out.data = << >>
            THEN FallbackData(HousingFallback, date) ELSE out.data
      [] metric = "mortgage_delinquency" ->
            IF out.raised \/ out.data = << >>
            THEN FallbackData(MortgageFallback, date) ELSE out.data
      [] OTHER ->
            IF out.raised THEN << >> ELSE out.data

\* ------------------------------------------------------------- formatters
\* Python round(): nearest, ties to even; n / d with d > 0
RoundDiv(n, d) ==
    LET q == n \div d
        r == n % d
    IN IF 2 * r < d THEN q
       ELSE IF 2 * r > d THEN q + 1
       ELSE IF q % 2 = 0 THEN q ELSE q + 1

\* a year loop that leaves the fourth quarter out
RECURSIVE QuartersOfYears_NoFourth(_, _)
QuartersOfYears_NoFourth(from, to) ==
    IF from > to THEN << >>
    ELSE << <<from, 1>>, <<from, 2>>, <<from, 3>> >>
         \o QuartersOfYears_NoFourth(from + 1, to)

\* for year in range(from, to + 1): for quarter in range(1, 5)
RECURSIVE QuartersOfYears(_, _)
QuartersOfYears(from, to) ==
    IF from > to THEN << >>
    ELSE << <<from, 1>>, <<from, 2>>, <<from, 3>>, <<from, 4>> >>
         \o QuartersOfYears(from + 1, to)

\* reporting thresholds at the first of the month only
max_quarter_MonthOnly(date) ==
    IF date.month >= 11 THEN 3
    ELSE IF date.month >= 8 THEN 2
    ELSE IF date.month >= 5 THEN 1
    ELSE 0

\* generate_standard_labels: quarters of the current year taken as reported
max_quarter(date) ==
    IF date.month >= 11 \/ (date.month = 10 /\ date.day >= 15) THEN 3
    ELSE IF date.month >= 8 \/ (date.month = 7 /\ date.day >= 15) THEN 2
    ELSE IF date.month >= 5 \/ (date.month = 4 /\ date.day >= 15) THEN 1
    ELSE 0

\* labels that start period = 4 years before the current year
generate_standard_labels_FromPeriod(date) ==
    QuartersOfYears(date.year - 4, date.year - 1)
    \o [ q \in 1..max_quarter(date) |-> <<date.year, q>> ]

\* generate_standard_labels(period): start_year = current_year - 3
generate_standard_labels(date) ==
    QuartersOfYears(date.year - 3, date.year - 1)
    \o [ q \in 1..max_quarter(date) |-> <<date.year, q>> ]

\* labels of the macro formatters: every quarter of current_year-4..current_year
MacroLabels(date) == QuartersOfYears(date.year - 4, date.year)

\* the row a formatter's data_map holds for a label
RowAt(data, label) ==
    CHOOSE r \in DOMAIN data : r.year = label[1] /\ r.quarter = label[2]

HasRowAt(data, label) ==
    \E r \in DOMAIN data : r.year = label[1] /\ r.quarter = label[2]

\* unit conversion and round(value, 2) of format_chart_data_by_period,
\* result in hundredths
ChartValue(metric, market, v) ==
    IF metric = "revenue"
    THEN IF market = "US" THEN RoundDiv(v, 10)   \* millions / 1e3, 2 decimals
         ELSE v                                  \* millions / 1e2, 2 decimals
    ELSE 100 * v                                 \* price in whole units

\* a formatter that lists the values of the rows it has, one after the other
format_chart_data_by_period_Compact(data, date, metric, market) ==
    LET standard_labels == generate_standard_labels(date)
        filtered == Select(data, LAMBDA r : r.year >= date.year - 4)
        present == SelectSeq(standard_labels, LAMBDA l : HasRowAt(filtered, l))
    IN [ labels |-> standard_labels,
         values |-> [ i \in 1..Len(present) |->
                        <<ChartValue(metric, market,
                                     RowAt(filtered, present[i]).value[1])>> ] ]

\* format_chart_data_by_period
format_chart_data_by_period(data, date, metric, market) ==
    LET standard_labels == generate_standard_labels(date)
        filtered == Select(data, LAMBDA r : r.year >= date.year - 4)
    IN [ labels |-> standard_labels,
         values |-> [ i \in 1..Len(standard_labels) |->
                        IF HasRowAt(filtered, standard_labels[i])
                        THEN <<ChartValue(metric, market,
                                 RowAt(filtered, standard_labels[i]).value[1])>>
                        ELSE <<0>> ] ]

\* format_price_chart_data / format_revenue_chart_data; ticker << >> is the
\* omitted argument (ticker=None)
FormatStockChart(data, date, metric, ticker) ==
    LET market == IF ticker # << >> /\ is_english_ticker(ticker) THEN "US" ELSE "KR"
        result == format_chart_data_by_period(data, date, metric, market)
    IN [ labels |-> result.labels,
         series |-> IF metric = "price" THEN [ n \in {"prices"} |-> result.values ]
                    ELSE [ n \in {"revenues"} |-> result.values ] ]

MacroSeries(metric) ==
    CASE metric = "treasury"          -> <<"treasury_5y", "treasury_3m">>
      [] metric = "housing_inventory" -> <<"inventory_values">>
      [] OTHER                        -> <<"delinquency_values">>

\* a macro formatter that fills a missing quarter with 0
FormatMacroChart_ZeroGap(data, date, metric) ==
    LET labels == MacroLabels(date)
        names  == MacroSeries(metric)
    IN [ labels |-> labels,
         series |-> [ n \in { names[j] : j \in DOMAIN names } |->
                       [ i \in 1..Len(labels) |->
                           IF HasRowAt(data, labels[i])
                           THEN <<RowAt(data, labels[i]).value[
                                    CHOOSE j \in DOMAIN names : names[j] = n]>>
                           ELSE <<0>> ] ] ]

\* format_treasury_chart_data, format_housing_inventory_chart_data,
\* format_mortgage_delinquency_chart_data
FormatMacroChart(data, date, metric) ==
    LET labels == MacroLabels(date)
        names  == MacroSeries(metric)
    IN [ labels |-> labels,
         series |-> [ n \in { names[j] : j \in DOMAIN names } |->
                       [ i \in 1..Len(labels) |->
                           IF HasRowAt(data, labels[i])
                           THEN <<RowAt(data, labels[i]).value[
                                    CHOOSE j \in DOMAIN names : names[j] = n]>>
                           ELSE << >> ] ] ]

ValuationSeries == <<"pbr_values", "per_values", "ev_ebitda_values">>

\* format_valuation_chart_data: the value columns of a row are <<pbr, per,
\* ev_ebitda>> in thousandths; round(x, 2), a missing quarter is 0
FormatValuationChart(data, date) ==
    LET standard_labels == generate_standard_labels(date)
    IN [ labels |-> standard_labels,
         series |-> [ n \in { ValuationSeries[j] : j \in DOMAIN ValuationSeries } |->
                       [ i \in 1..Len(standard_labels) |->
                           IF HasRowAt(data, standard_labels[i])
                           THEN <<RoundDiv(
                                    RowAt(data, standard_labels[i]).value[
                                      CHOOSE j \in DOMAIN ValuationSeries :
                                          ValuationSeries[j] = n], 10)>>
                           ELSE <<0>> ] ] ]

NoChart == [ labels |-> << >>, series |-> << >> ]

\* --------------------------------------------------------------- handlers
\* The record of one handled request: what the client got back (status,
\* cached, chart_data, deleted_count), the date it was handled at, the steps
\* the handler went through (trace), what the provider did, the series the
\* handler got from its fetch step (fetched), and the counters of its save
\* step.
Response(kind, entity, metric, date, status, cached, chart, deleted, trace, provider, fetched, saved) ==
    [ kind |-> kind, entity |-> entity, metric |-> metric, date |-> date,
      status |-> status, cached |-> cached, chart_data |-> chart,
      deleted_count |-> deleted, trace |-> trace, provider |-> provider,
      fetched |-> fetched,
      saved_count |-> saved.saved_count, skipped_count |-> saved.skipped_count ]

NoSave == [saved_count |-> 0, skipped_count |-> 0]

NoResponse ==
    Response("none", << >>, "none", StartDate, 0, "n/a", NoChart, << >>, << >>,
             "not called", << >>, NoSave)

\* "failed": the provider raised or returned an empty series
ProviderResult(out) ==
    IF out.raised \/ out.data = << >> THEN "failed" ELSE "data"

EntityOf(metric, ticker) == IF metric \in StockMetrics THEN ticker ELSE Global

FormatChart(data, date, metric, ticker) ==
    IF metric \in StockMetrics THEN FormatStockChart(data, date, metric, ticker)
    ELSE FormatMacroChart(data, date, metric)

\* a check that goes on with a blank stock_code
CheckHandler_NoBlankGuard(st, date, metric, raw, out) ==
    LET ticker == RemoveWhitespace(raw)
        entity == EntityOf(metric, ticker)
        gate   == CheckDatabaseData(st, entity, metric, date)
        data   == FetchData(metric, out, date)
        saved  == SaveToDatabase(st, entity, metric, data, date)
        db     == GetDatabaseData(saved.store, entity, metric, date)
    IN IF gate.has /\ gate.data # EmptyBag
       THEN [ store |-> st,
              resp  |-> Response("check", entity, metric, date, 200, "yes",
                                 FormatChart(gate.data, date, metric, ticker),
                                 << >>, <<"gate", "format">>, "not called",
                                 << >>, NoSave) ]
       ELSE IF data = << >>
       THEN [ store |-> st,
              resp  |-> Response("check", entity, metric, date, 400, "n/a",
                                 NoChart, << >>, <<"gate", "fetch">>,
                                 ProviderResult(out), data, NoSave) ]
       ELSE [ store |-> saved.store,
              resp  |-> Response("check", entity, metric, date, 200, "no",
                                 FormatChart(db, date, metric, ticker), << >>,
                                 <<"gate", "fetch", "save", "query", "format">>,
                                 ProviderResult(out), data, saved) ]

\* check_stock_<metric> / check_economy_<metric>
CheckHandler(st, date, metric, raw, out) ==
    LET ticker == RemoveWhitespace(raw)
        entity == EntityOf(metric, ticker)
        gate   == CheckDatabaseData(st, entity, metric, date)
        data   == FetchData(metric, out, date)
        saved  == SaveToDatabase(st, entity, metric, data, date)
        db     == GetDatabaseData(saved.store, entity, metric, date)
    IN IF metric \in StockMetrics /\ ticker = << >>
       THEN [ store |-> st,
              resp  |-> Response("check", entity, metric, date, 400, "n/a",
                                 NoChart, << >>, << >>, "not called", << >>, NoSave) ]
       ELSE IF gate.has /\ gate.data # EmptyBag
       THEN [ store |-> st,
              resp  |-> Response("check", entity, metric, date, 200, "yes",
                                 FormatChart(gate.data, date, metric, ticker),
                                 << >>, <<"gate", "format">>, "not called",
                                 << >>, NoSave) ]
       ELSE IF data = << >>
       THEN [ store |-> st,
              resp  |-> Response("check", entity, metric, date, 400, "n/a",
                                 NoChart, << >>, <<"gate", "fetch">>,
                                 ProviderResult(out), data, NoSave) ]
       ELSE [ store |-> saved.store,
              resp  |-> Response("check", entity, metric, date, 200, "no",
                                 FormatChart(db, date, metric, ticker), << >>,
                                 <<"gate", "fetch", "save", "query", "format">>,
                                 ProviderResult(out), data, saved) ]

\* a refresh that clears before it calls the provider
RefreshHandler_ClearFirst(st, date, metric, raw, out) ==
    LET ticker  == RemoveWhitespace(raw)
        entity  == EntityOf(metric, ticker)
        cleared == ClearCache(st, entity, metric, date)
        data    == FetchData(metric, out, date)
        saved   == SaveToDatabase(cleared.store, entity, metric, data, date)
        db      == GetDatabaseData(saved.store, entity, metric, date)
        fmtArg  == IF metric = "revenue" THEN << >> ELSE ticker
    IN IF metric \in StockMetrics /\ ticker = << >>
       THEN [ store |-> st,
              resp  |-> Response("refresh", entity, metric, date, 400, "n/a",
                                 NoChart, << >>, << >>, "not called", << >>, NoSave) ]
       ELSE IF data = << >>
       THEN [ store |-> cleared.store,
              resp  |-> Response("refresh", entity, metric, date, 400, "n/a",
                                 NoChart, << >>, <<"clear", "fetch">>,
                                 ProviderResult(out), data, NoSave) ]
       ELSE IF db = EmptyBag
       THEN [ store |-> saved.store,
              resp  |-> Response("refresh", entity, metric, date, 400, "n/a",
                                 NoChart, << >>,
                                 <<"clear", "fetch", "save", "query">>,
                                 ProviderResult(out), data, saved) ]
       ELSE [ store |-> saved.store,
              resp  |-> Response("refresh", entity, metric, date, 200, "n/a",
                                 FormatChart(db, date, metric, fmtArg),
                                 <<cleared.deleted_count>>,
                                 <<"clear", "fetch", "save", "query", "format">>,
                                 ProviderResult(out), data, saved) ]

\* refresh_stock_<metric> / refresh_economy_<metric>.  refresh_stock_revenue
\* calls format_revenue_chart_data(db_data, period) without the ticker.
RefreshHandler(st, date, metric, raw, out) ==
    LET ticker  == RemoveWhitespace(raw)
        entity  == EntityOf(metric, ticker)
        data    == FetchData(metric, out, date)
        cleared == ClearCache(st, entity, metric, date)
        saved   == SaveToDatabase(cleared.store, entity, metric, data, date)
        db      == GetDatabaseData(saved.store, entity, metric, date)
        fmtArg  == IF metric = "revenue" THEN << >> ELSE ticker
    IN IF metric \in StockMetrics /\ ticker = << >>
       THEN [ store |-> st,
              resp  |-> Response("refresh", entity, metric, date, 400, "n/a",
                                 NoChart, << >>, << >>, "not called", << >>, NoSave) ]
       ELSE IF data = << >>
       THEN [ store |-> st,
              resp  |-> Response("refresh", entity, metric, date, 400, "n/a",
                                 NoChart, << >>, <<"fetch">>,
                                 ProviderResult(out), data, NoSave) ]
       ELSE IF db = EmptyBag
       THEN [ store |-> saved.store,
              resp  |-> Response("refresh", entity, metric, date, 400, "n/a",
                                 NoChart, << >>,
                                 <<"fetch", "clear", "save", "query">>,
                                 ProviderResult(out), data, saved) ]
       ELSE [ store |-> saved.store,
              resp  |-> Response("refresh", entity, metric, date, 200, "n/a",
                                 FormatChart(db, date, metric, fmtArg),
                                 <<cleared.deleted_count>>,
                                 <<"fetch", "clear", "save", "query", "format">>,
                                 ProviderResult(out), data, saved) ]

\* ------------------------------------------------- provider normalizers
\* days of a calendar month
DaysIn(year, month) ==
    IF month = 2 THEN (IF year % 4 = 0 THEN 29 ELSE 28)
    ELSE IF month \in {4, 6, 9, 11} THEN 30 ELSE 31

\* quarter = ((col.month - 1) // 3) + 1
QuarterOfMonth(month) == ((month - 1) \div 3) + 1

Frac(n) == <<n, 1>>

\* a sign test that lets every quotient pass
FracPositive_Always(a) == TRUE

\* a / b of two fractions
FracDiv(a, b) == <<a[1] * b[2], a[2] * b[1]>>

FracPositive(a) == a[1] * a[2] > 0

FracAdd(a, b) == <<a[1] * b[2] + b[1] * a[2], a[2] * b[2]>>

FracMul(a, b) == <<a[1] * b[1], a[2] * b[2]>>

\* an annual split that rounds the quarter share down to a whole number
quarterly_avg_Floor(v) == Frac(v \div 4)

\* quarterly_avg = annual_value / 4
quarterly_avg(v) == FracDiv(Frac(v), Frac(4))

\* a keep rule that is "not null and not zero" for every metric
Keeps_NonZero(metric, obs) == obs # << >> /\ obs[1] # 0

\* get_revenue_data_from_yahoo: "if revenue_value and revenue_value > 0"
KeepsRevenue(obs) == obs # << >> /\ obs[1] > 0

\* the other flow / stock normalizers: "pd.notna(value) and value != 0"
KeepsFlow(obs) == obs # << >> /\ obs[1] # 0

\* the observations the normalizer of a metric keeps
Keeps(metric, obs) ==
    IF metric = "revenue" THEN KeepsRevenue(obs) ELSE KeepsFlow(obs)

\* an annual loop that also splits the current year
InAnnualWindow_WithCurrentYear(year, date, years) == year >= date.year - years

\* the annual loop: year >= current_year - years and year < current_year
InAnnualWindow(year, date, years) ==
    year >= date.year - years /\ year < date.year

\* the quarterly loop: year >= current_year - years
InQuarterlyWindow(year, date, years) == year >= date.year - years

\* the annual loop: every kept annual value of a past year of the window is
\* written to the four quarters of its year
RECURSIVE AnnualLoop(_, _, _, _, _)
AnnualLoop(acc, metric, cols, date, years) ==
    IF cols = << >> THEN acc
    ELSE LET c    == Head(cols)
             keys == { <<c.year, q>> : q \in 1..4 }
             nxt  == IF InAnnualWindow(c.year, date, years) /\ Keeps(metric, c.value)
                     THEN [ k \in DOMAIN acc \cup keys |->
                              IF k \in keys THEN quarterly_avg(c.value[1])
                              ELSE acc[k] ]
                     ELSE acc
         IN AnnualLoop(nxt, metric, Tail(cols), date, years)

\* the quarterly loop: every kept quarterly value of the window is written
\* to its quarter key
RECURSIVE QuarterlyLoop(_, _, _, _, _)
QuarterlyLoop(acc, metric, cols, date, years) ==
    IF cols = << >> THEN acc
    ELSE LET c   == Head(cols)
             key == <<c.year, QuarterOfMonth(c.month)>>
             nxt == IF InQuarterlyWindow(c.year, date, years) /\ Keeps(metric, c.value)
                    THEN [ k \in DOMAIN acc \cup {key} |->
                             IF k = key THEN Frac(c.value[1]) ELSE acc[k] ]
                    ELSE acc
         IN QuarterlyLoop(nxt, metric, Tail(cols), date, years)

\* a normalizer that runs its annual loop after its quarterly loop
NormalizeFlow_AnnualLast(metric, annual, quarterly, date, years) ==
    AnnualLoop(QuarterlyLoop(<< >>, metric, quarterly, date, years),
               metric, annual, date, years)

\* get_<metric>_data_from_yahoo of revenue, operating income, net profit,
\* total debt, current liabilities, interest expense and cash: the annual
\* loop, then the quarterly loop on the same dictionary
NormalizeFlow(metric, annual, quarterly, date, years) ==
    QuarterlyLoop(AnnualLoop(<< >>, metric, annual, date, years),
                  metric, quarterly, date, years)

\* pd.notna(shares_outstanding) and shares_outstanding > 0
SharesUsable(shares) == shares # << >> /\ shares[1] > 0

\* a valuation normalizer whose EV/EBITDA asks only for EBITDA > 0
EvEbitdaDefined_EbitdaOnly(frame) ==
    frame.ebitda # << >> /\ frame.ebitda[1] > 0

\* the guard of EV/EBITDA: EBITDA and shares_outstanding not null and > 0
EvEbitdaDefined(frame) ==
    /\ frame.ebitda # << >> /\ frame.ebitda[1] > 0
    /\ SharesUsable(frame.shares_outstanding)

DateLess(a, b) ==
    \/ a.year < b.year
    \/ a.year = b.year /\ a.month < b.month
    \/ a.year = b.year /\ a.month = b.month /\ a.day < b.day

\* date + pd.DateOffset(months=n): the day is cut to the end of the month
AddMonths(d, n) ==
    LET m0 == d.month - 1 + n
        y  == d.year + (m0 \div 12)
        m  == (m0 % 12) + 1
    IN [ year |-> y, month |-> m,
         day |-> IF d.day > DaysIn(y, m) THEN DaysIn(y, m) ELSE d.day ]

RECURSIVE SumClose(_)
SumClose(obs) ==
    IF obs = {} THEN 0
    ELSE LET h == CHOOSE x \in obs : TRUE IN h.close + SumClose(obs \ {h})

\* quarter_data['Close'].mean() in currency units, the closes being counted
\* in hundredths; None for no observation
MeanClose(obs) ==
    IF obs = {} THEN << >> ELSE << <<SumClose(obs), 100 * Cardinality(obs)>> >>

\* hist[(hist.index >= quarter_start) & (hist.index < quarter_end)] with
\* quarter_start = col and quarter_end = col + pd.DateOffset(months=3)
quarter_prices(hist, col) ==
    { h \in hist : ~ DateLess(h, col) /\ DateLess(h, AddMonths(col, 3)) }

\* get_valuation_data_from_yahoo for one quarter column: the average price,
\* the three ratios (<< >> is None), whether an entry is written for the
\* quarter, and whether a division by zero was made
NormalizeValuation(frame) ==
    LET key    == <<frame.year, QuarterOfMonth(frame.month)>>
        col    == [ year |-> frame.year, month |-> frame.month, day |-> frame.day ]
        avg_price == MeanClose(quarter_prices(frame.hist, col))
        shares == frame.shares_outstanding
        perTry == frame.net_income # << >> /\ SharesUsable(shares)
        pbrTry == frame.tangible_book_value # << >> /\ SharesUsable(shares)
        eps    == FracDiv(Frac(frame.net_income[1]), Frac(shares[1]))
        bps    == FracDiv(Frac(frame.tangible_book_value[1]), Frac(shares[1]))
        per    == IF perTry /\ FracPositive(eps)
                  THEN <<FracDiv(avg_price[1], eps)>> ELSE << >>
        pbr    == IF pbrTry /\ FracPositive(bps)
                  THEN <<FracDiv(avg_price[1], bps)>> ELSE << >>
        market_cap == FracMul(avg_price[1], Frac(shares[1]))
        ev     == FracAdd(market_cap,
                     Frac((IF frame.total_debt # << >> THEN frame.total_debt[1] ELSE 0)
                          - (IF frame.cash # << >> THEN frame.cash[1] ELSE 0)))
        ev_ebitda == IF EvEbitdaDefined(frame) /\ shares # << >>
                     THEN <<FracDiv(ev, Frac(frame.ebitda[1]))>> ELSE << >>
    IN IF avg_price = << >>
       THEN [ key |-> key, avg_price |-> << >>, per |-> << >>, pbr |-> << >>,
              ev_ebitda |-> << >>, emitted |-> FALSE, zero_division |-> FALSE ]
       ELSE [ key |-> key, avg_price |-> avg_price, per |-> per, pbr |-> pbr,
              ev_ebitda |-> ev_ebitda,
              emitted |-> per # << >> \/ pbr # << >> \/ ev_ebitda # << >>,
              zero_division |-> (perTry \/ pbrTry) /\ shares[1] = 0 ]

\* get_available_quarters of process_quarterly_data
get_available_quarters(year, date) ==
    IF year < date.year THEN 4
    ELSE IF year = date.year
    THEN IF date.month >= 10 THEN 3
         ELSE IF date.month >= 7 THEN 2
         ELSE IF date.month >= 4 THEN 1
         ELSE 0
    ELSE 0

\* the daily closes of a calendar quarter
quarter_data(hist, key) ==
    { h \in hist : /\ h.year = key[1]
                   /\ h.month >= (key[2] - 1) * 3 + 1
                   /\ h.month <= key[2] * 3 }

\* process_quarterly_data: per year of the last ten and per available
\* quarter, int(avg_close) of the quarter's daily closes when the average
\* is positive
process_quarterly_data(hist, date) ==
    LET keys == { k \in { <<y, q>> : y \in (date.year - 10)..date.year, q \in 1..4 } :
                    /\ k[2] <= get_available_quarters(k[1], date)
                    /\ quarter_data(hist, k) # {}
                    /\ SumClose(quarter_data(hist, k)) > 0 }
    IN [ k \in keys |-> LET mean == MeanClose(quarter_data(hist, k))[1]
                         IN <<mean[1] \div mean[2]>> ]

\* save_price_to_database: the stock_price column of the record it inserts
stock_price(entry) == IF entry[1] # 0 THEN entry[1] ELSE 0

\* save_valuation_to_database: the value columns of the record it inserts
\* for an emitted entry (a ratio that is None is stored as null), none when
\* the quarter has no entry
ValuationRecord(out) ==
    IF out.emitted
    THEN << [ pbr |-> out.pbr, per |-> out.per, ev_ebitda |-> out.ev_ebitda ] >>
    ELSE << >>

\* a quarter column without any value
NoFrame ==
    [ year |-> 0, month |-> 1, day |-> 1, hist |-> {}, net_income |-> << >>,
      tangible_book_value |-> << >>, shares_outstanding |-> << >>,
      total_debt |-> << >>, cash |-> << >>, ebitda |-> << >> ]

\* no normalizer has been applied
NoNormalized ==
    [ fn |-> "none", annual |-> << >>, quarterly |-> << >>, frame |-> NoFrame,
      output |-> << >> ]

\* --------------------------------------------------- provider adapters
\* what one provider call gives: data, an empty answer, or an exception
CallResults == {"data", "empty", "raised"}

\* an adapter that repeats a failed call once before it goes on
RECURSIVE TryInOrder_Retry(_, _)
TryInOrder_Retry(names, res) ==
    IF names = << >> THEN << >>
    ELSE LET c == [ call |-> Head(names), result |-> res[Head(names)] ]
         IN IF c.result = "data" THEN <<c>>
            ELSE <<c, c>> \o TryInOrder_Retry(Tail(names), res)

\* get_mortgage_delinquency_data_from_fred: the series ids are tried in
\* priority order until one gives data; the log of the calls made
RECURSIVE TryInOrder(_, _)
TryInOrder(names, res) ==
    IF names = << >> THEN << >>
    ELSE LET c == [ call |-> Head(names), result |-> res[Head(names)] ]
         IN IF c.result = "data" THEN <<c>>
            ELSE <<c>> \o TryInOrder(Tail(names), res)

\* get_treasury_data_from_yahoo, get_revenue_data_from_yahoo: each call in
\* its own try block, the next one made whatever the first did
CallEach(names, res) ==
    [ i \in DOMAIN names |-> [ call |-> names[i], result |-> res[names[i]] ] ]

\* get_stock_price_data: history, and info when the history is not empty
MortgageSeries == <<"DRSFRMACBS", "DRALACBS", "MORTGAGE30US">>

TreasurySeries == <<"DGS5", "DGS3MO">>

HousingSeries == <<"MSACSR">>

RevenueStatements == <<"financials", "quarterly_financials">>

\* no request has called a provider
NoCalls == [ kind |-> "none", adapter |-> "none", log |-> << >> ]

\* ------------------------------------------------- symbols and quarter keys
\* Strings are sequences of one-character strings.
\* str.upper()
upper(s) ==
    [ i \in 1..Len(s) |-> CASE s[i] = "a" -> "A" [] s[i] = "b" -> "B" [] OTHER -> s[i] ]

kosdaq_stocks ==
    { <<"0", "3", "5", "4", "2", "0">>,
      <<"0", "3", "5", "7", "2", "0">>,
      <<"2", "0", "7", "9", "4", "0">> }

\* a symbol mapping that leaves the case of the ticker as it is
convert_to_yahoo_symbol_NoUpper(ticker) ==
    IF is_english_ticker(ticker) THEN ticker
    ELSE IF ticker \in kosdaq_stocks THEN ticker \o <<".", "K", "Q">>
    ELSE ticker \o <<".", "K", "S">>

convert_to_yahoo_symbol(ticker) ==
    IF is_english_ticker(ticker) THEN upper(ticker)
    ELSE IF ticker \in kosdaq_stocks THEN ticker \o <<".", "K", "Q">>
    ELSE ticker \o <<".", "K", "S">>

\* market = 'US' if ticker and is_english_ticker(ticker) else 'KR'
chart_market(ticker) ==
    IF ticker # << >> /\ is_english_ticker(ticker) THEN "US" ELSE "KR"

\* the month lists of the macro normalizers
quarter_by_month_list(month) ==
    IF month \in {1, 2, 3} THEN 1
    ELSE IF month \in {4, 5, 6} THEN 2
    ELSE IF month \in {7, 8, 9} THEN 3
    ELSE 4

DigitChars == <<"0", "1", "2", "3", "4", "5", "6", "7", "8", "9">>

\* the decimal form an f-string gives an int
RECURSIVE format_int(_)
format_int(n) ==
    IF n < 0 THEN <<"-">> \o format_int(0 - n)
    ELSE IF n < 10 THEN <<DigitChars[n + 1]>>
    ELSE format_int(n \div 10) \o <<DigitChars[(n % 10) + 1]>>

\* key = f"{year}Q{quarter}"
quarter_key(year, quarter) == format_int(year) \o <<"Q">> \o format_int(quarter)

RECURSIVE DecimalValue(_)
DecimalValue(s) ==
    IF s = << >> THEN 0
    ELSE 10 * DecimalValue(SubSeq(s, 1, Len(s) - 1))
         + (CHOOSE d \in 0..9 : DigitChars[d + 1] = s[Len(s)])

\* int(s): white space around the number is dropped, one sign is allowed,
\* and at least one digit is required; << >> stands for the ValueError,
\* <<v>> for the value
to_int(s) ==
    LET inked  == { i \in 1..Len(s) : s[i] \notin Whitespace }
        t      == IF inked = {} THEN << >>
                  ELSE SubSeq(s, CHOOSE i \in inked : \A j \in inked : i <= j,
                                 CHOOSE i \in inked : \A j \in inked : j <= i)
        signed == t # << >> /\ Head(t) \in {"-", "+"}
        digits == IF signed THEN Tail(t) ELSE t
    IN IF digits = << >> \/ \E i \in 1..Len(digits) : digits[i] \notin { DigitChars[d] : d \in 1..Len(DigitChars) }
       THEN << >>
       ELSE IF signed /\ Head(t) = "-" THEN <<0 - DecimalValue(digits)>>
       ELSE <<DecimalValue(digits)>>

\* str.split(sep) with a separator of one character
RECURSIVE split(_, _)
split(s, sep) ==
    IF \E i \in 1..Len(s) : s[i] = sep
    THEN LET i == CHOOSE k \in 1..Len(s) :
                      s[k] = sep /\ \A j \in 1..(k - 1) : s[j] # sep
         IN <<SubSeq(s, 1, i - 1)>> \o split(SubSeq(s, i + 1, Len(s)), sep)
    ELSE <<s>>

KeyOrError(y, q) == IF y = << >> \/ q = << >> THEN << >> ELSE << <<y[1], q[1]>> >>

\* year_str, quarter_str = quarter_key.split('Q'); int(year_str);
\* int(quarter_str): << >> stands for the ValueError, << <<year, quarter>> >>
\* for the parsed key
parse_key_by_split(key) ==
    LET parts == split(key, "Q")
    IN IF Len(parts) # 2 THEN << >>
       ELSE KeyOrError(to_int(parts[1]), to_int(parts[2]))

\* a slicing parser that takes the quarter from the fifth character on
parse_key_by_slice_FromQ(key) ==
    KeyOrError(to_int(SubSeq(key, 1, IF 4 < Len(key) THEN 4 ELSE Len(key))),
               to_int(SubSeq(key, 5, Len(key))))

\* year = int(quarter_key[:4]); quarter = int(quarter_key[5:])
parse_key_by_slice(key) ==
    KeyOrError(to_int(SubSeq(key, 1, IF 4 < Len(key) THEN 4 ELSE Len(key))),
               to_int(SubSeq(key, 6, Len(key))))

NoConverted == [fn |-> "none", input |-> << >>, output |-> << >>]

\* ------------------------------------------------------------ state machine
\* a thread that handles no request
Idle ==
    [ pc |-> "idle", metric |-> "none", ticker |-> << >>, entity |-> << >>,
      cached |-> "n/a", status |-> 0, data |-> << >>, pending |-> {},
      found |-> FALSE, raised |-> 0 ]

Threads == {1, 2}

\* no refresh has stopped half-way
NoStop == [ entity |-> << >>, metric |-> "none", deleted |-> EmptyBag ]

\* no formatter has been applied
NoFormat ==
    [ fn |-> "none", ticker |-> << >>, data |-> EmptyBag, result |-> NoChart ]

Init ==
    /\ store = EmptyBag
    /\ now = StartDate
    /\ nreq = 0
    /\ last = NoResponse
    /\ inflight = [ t \in Threads |-> Idle ]
    /\ stopped = NoStop
    /\ formatted = NoFormat
    /\ normalized = NoNormalized
    /\ calls = NoCalls
    /\ stocks = << >>
    /\ converted = NoConverted

Handle(result) ==
    /\ nreq < MaxRequests
    /\ nreq' = nreq + 1
    /\ store' = result.store
    /\ last' = result.resp
    /\ UNCHANGED <<now, inflight, stopped, formatted, normalized, calls, stocks, converted>>

check_stock_price ==
    \E raw \in RawCodes, out \in Outcomes("price") :
        Handle(CheckHandler(store, now, "price", raw, out))

check_stock_revenue ==
    \E raw \in RawCodes, out \in Outcomes("revenue") :
        Handle(CheckHandler(store, now, "revenue", raw, out))

refresh_stock_price ==
    \E raw \in RawCodes, out \in Outcomes("price") :
        Handle(RefreshHandler(store, now, "price", raw, out))

refresh_stock_revenue ==
    \E raw \in RawCodes, out \in Outcomes("revenue") :
        Handle(RefreshHandler(store, now, "revenue", raw, out))

check_economy_treasury ==
    \E out \in Outcomes("treasury") :
        Handle(CheckHandler(store, now, "treasury", << >>, out))

refresh_economy_treasury ==
    \E out \in Outcomes("treasury") :
        Handle(RefreshHandler(store, now, "treasury", << >>, out))

check_economy_housing_inventory ==
    \E out \in Outcomes("housing_inventory") :
        Handle(CheckHandler(store, now, "housing_inventory", << >>, out))

refresh_economy_housing_inventory ==
    \E out \in Outcomes("housing_inventory") :
        Handle(RefreshHandler(store, now, "housing_inventory", << >>, out))

check_economy_mortgage_delinquency ==
    \E out \in Outcomes("mortgage_delinquency") :
        Handle(CheckHandler(store, now, "mortgage_delinquency", << >>, out))

refresh_economy_mortgage_delinquency ==
    \E out \in Outcomes("mortgage_delinquency") :
        Handle(RefreshHandler(store, now, "mortgage_delinquency", << >>, out))

\* the calendar moves on to the next month
Tick ==
    /\ MonthsSinceStart(now) < MaxTicks
    /\ now' = NextMonth(now)
    /\ UNCHANGED <<store, nreq, last, inflight, stopped, formatted, normalized, calls, stocks, converted>>

Next ==
    \/ check_stock_price
    \/ check_stock_revenue
    \/ refresh_stock_price
    \/ refresh_stock_revenue
    \/ check_economy_treasury
    \/ refresh_economy_treasury
    \/ check_economy_housing_inventory
    \/ refresh_economy_housing_inventory
    \/ check_economy_mortgage_delinquency
    \/ refresh_economy_mortgage_delinquency
    \/ Tick

Spec == Init /\ [][Next]_vars

\* -------------------------------------------- check requests, step by step
\* Flask serves requests on several threads; the handlers take no lock.  One
\* step of a thread is one store call (gate select, exists-lookup, insert /
\* update, final select) or the provider call.
ConcurrentMetrics == {"price", "treasury", "mortgage_delinquency"}

Advance(t, rec) ==
    /\ inflight' = [inflight EXCEPT ![t] = rec]
    /\ UNCHANGED <<now, nreq, last, stopped, formatted, normalized, calls, stocks, converted>>

\* the request arrives: stock_code is stripped, a blank one answers 400
receive_check ==
    \E t \in Threads, metric \in ConcurrentMetrics, raw \in RawCodes :
        LET ticker == IF metric \in StockMetrics THEN RemoveWhitespace(raw)
                      ELSE << >>
        IN /\ inflight[t].pc = "idle"
           /\ metric \notin StockMetrics => raw = <<" ">>
           /\ Advance(t, [inflight[t] EXCEPT
                  !.metric = metric, !.ticker = ticker,
                  !.entity = EntityOf(metric, ticker),
                  !.pc = IF metric \in StockMetrics /\ ticker = << >>
                         THEN "done" ELSE "gate",
                  !.status = IF metric \in StockMetrics /\ ticker = << >>
                             THEN 400 ELSE 0])
           /\ UNCHANGED store

\* check_<metric>_database_data
gate_check ==
    \E t \in Threads :
        LET me   == inflight[t]
            gate == CheckDatabaseData(store, me.entity, me.metric, now)
        IN /\ me.pc = "gate"
           /\ IF gate.has /\ gate.data # EmptyBag
              THEN Advance(t, [me EXCEPT !.pc = "done", !.cached = "yes",
                                         !.status = 200])
              ELSE Advance(t, [me EXCEPT !.pc = "fetch", !.cached = "no"])
           /\ UNCHANGED store

\* the provider call and the normaliser
fetch_check ==
    \E t \in Threads :
        \E out \in Outcomes(inflight[t].metric) :
            LET me   == inflight[t]
                data == FetchData(me.metric, out, now)
            IN /\ me.pc = "fetch"
               /\ IF data = << >>
                  THEN Advance(t, [me EXCEPT !.pc = "done", !.status = 400])
                  ELSE Advance(t, [me EXCEPT !.pc = "lookup", !.data = data,
                                             !.pending = DOMAIN data])
               /\ UNCHANGED store

\* the exists-lookup of the save loop for its next quarter
lookup_save ==
    \E t \in Threads :
        LET me == inflight[t]
            k  == FirstKey(me.pending)
        IN /\ me.pc = "lookup"
           /\ Advance(t, [me EXCEPT
                  !.pc = "write",
                  !.found = Existing(store, me.entity, me.metric, k) # EmptyBag])
           /\ UNCHANGED store

\* what the save loop does after its lookup.  price, treasury: skip when the
\* lookup found a row, insert otherwise, an insert that raises is caught and
\* the loop goes on.  mortgage delinquency: update when the lookup found a
\* row, insert otherwise, an insert that raises ends the save (the handler
\* ignores its result).
write_save ==
    \E t \in Threads :
        LET me   == inflight[t]
            k    == FirstKey(me.pending)
            row  == NewRow(me.entity, me.metric, k, me.data[k], now)
            old  == Existing(store, me.entity, me.metric, k)
            rest == me.pending \ {k}
            goOn == [me EXCEPT !.pending = rest,
                               !.pc = IF rest = {} THEN "query" ELSE "lookup"]
        IN /\ me.pc = "write"
           /\ IF me.found
              THEN /\ store' = IF me.metric = "mortgage_delinquency" /\ old # EmptyBag
                               THEN (store (-) old)
                                    (+) [ r \in {row} |-> BagCardinality(old) ]
                               ELSE store
                   /\ Advance(t, goOn)
              ELSE IF InsertRaises(store, row)
              THEN /\ store' = store
                   /\ Advance(t, IF me.metric = "mortgage_delinquency"
                                 THEN [me EXCEPT !.raised = @ + 1, !.pc = "query"]
                                 ELSE [goOn EXCEPT !.raised = @ + 1])
              ELSE /\ store' = Insert(store, row)
                   /\ Advance(t, goOn)

\* get_<metric>_database_data, the formatter and the 200 response
respond_check ==
    \E t \in Threads :
        /\ inflight[t].pc = "query"
        /\ Advance(t, [inflight[t] EXCEPT !.pc = "done", !.status = 200])
        /\ UNCHANGED store

ConcurrentNext ==
    \/ receive_check
    \/ gate_check
    \/ fetch_check
    \/ lookup_save
    \/ write_save
    \/ respond_check

ConcurrentSpec == Init /\ [][ConcurrentNext]_vars

\* ------------------------------------- a refresh that stops after its clear
\* No transaction spans the clear and the save of a refresh: the process may
\* be stopped between the two store calls.  No response is sent (status 0);
\* stopped remembers the rows that refresh had deleted.
refresh_stops_after_clear ==
    \E metric \in StockMetrics \cup MacroMetrics, raw \in RawCodes :
        \E out \in Outcomes(metric) :
            LET ticker  == IF metric \in StockMetrics THEN RemoveWhitespace(raw)
                           ELSE << >>
                entity  == EntityOf(metric, ticker)
                data    == FetchData(metric, out, now)
                cleared == ClearCache(store, entity, metric, now)
            IN /\ nreq < MaxRequests
               /\ metric \notin StockMetrics => raw = <<" ">>
               /\ metric \in StockMetrics => ticker # << >>
               /\ data # << >>
               /\ nreq' = nreq + 1
               /\ store' = cleared.store
               /\ last' = Response("refresh", entity, metric, now, 0, "n/a",
                                   NoChart, << >>, <<"fetch", "clear">>,
                                   ProviderResult(out), data, NoSave)
               /\ stopped' = [ entity |-> entity, metric |-> metric,
                               deleted |-> TaggedRows(store, entity, metric, now) ]
               /\ UNCHANGED <<now, inflight, formatted, normalized, calls, stocks, converted>>

StopNext ==
    \/ refresh_stock_price
    \/ refresh_stock_revenue
    \/ refresh_economy_treasury
    \/ refresh_economy_housing_inventory
    \/ refresh_economy_mortgage_delinquency
    \/ refresh_stops_after_clear
    \/ Tick

StopSpec == Init /\ [][StopNext]_vars

\* ------------------------------------ the formatters on every calendar date
\* what datetime.now() can return
CalendarDates ==
    { d \in [year : {2025, 2026}, month : 1..12, day : 1..31] :
        d.day <= DaysIn(d.year, d.month) }

\* quarters a formatter may be given rows of: one before the lookback
\* window, one of the first year of the window, one of last year, one of
\* the current year
SampleKeys(date) ==
    { <<date.year - 5, 4>>, <<date.year - 4, 2>>,
      <<date.year - 1, 4>>, <<date.year, 2>> }

\* the value columns of the sample row of a quarter (a different value per
\* quarter)
SampleValue(metric, key) ==
    LET base == 100 * key[2] + 10 * (key[1] % 10) + 5
    IN CASE metric = "valuation" -> <<base, base + 10, base + 20>>
         [] metric = "treasury"  -> <<base, base + 1>>
         [] OTHER                -> <<base>>

\* the row lists a formatter may be given: at most one row per quarter
SampleData(entity, metric, date) ==
    { SetToBag({ NewRow(entity, metric, k, SampleValue(metric, k), date)
                   : k \in ks }) : ks \in SUBSET SampleKeys(date) }

FormatInit ==
    /\ store = EmptyBag
    /\ now \in CalendarDates
    /\ nreq = 0
    /\ last = NoResponse
    /\ inflight = [ t \in Threads |-> Idle ]
    /\ stopped = NoStop
    /\ formatted = NoFormat
    /\ normalized = NoNormalized
    /\ calls = NoCalls
    /\ stocks = << >>
    /\ converted = NoConverted

Apply(fn, ticker, data, result) ==
    /\ formatted = NoFormat
    /\ formatted' = [ fn |-> fn, ticker |-> ticker, data |-> data,
                      result |-> result ]
    /\ UNCHANGED <<store, now, nreq, last, inflight, stopped, normalized, calls, stocks, converted>>

generate_labels ==
    Apply("generate_standard_labels", << >>, EmptyBag,
          [ labels |-> generate_standard_labels(now), series |-> << >> ])

format_price_chart_data ==
    \E data \in SampleData(<<"A", "B">>, "price", now) :
        Apply("price", <<"A", "B">>, data,
              FormatStockChart(data, now, "price", <<"A", "B">>))

format_revenue_chart_data ==
    \E ticker \in { <<"A", "B">>, <<"0", "1">> } :
        \E data \in SampleData(ticker, "revenue", now) :
            Apply("revenue", ticker, data,
                  FormatStockChart(data, now, "revenue", ticker))

format_valuation_chart_data ==
    \E data \in SampleData(<<"A", "B">>, "valuation", now) :
        Apply("valuation", <<"A", "B">>, data, FormatValuationChart(data, now))

format_treasury_chart_data ==
    \E data \in SampleData(Global, "treasury", now) :
        Apply("treasury", << >>, data, FormatMacroChart(data, now, "treasury"))

format_housing_inventory_chart_data ==
    \E data \in SampleData(Global, "housing_inventory", now) :
        Apply("housing_inventory", << >>, data,
              FormatMacroChart(data, now, "housing_inventory"))

format_mortgage_delinquency_chart_data ==
    \E data \in SampleData(Global, "mortgage_delinquency", now) :
        Apply("mortgage_delinquency", << >>, data,
              FormatMacroChart(data, now, "mortgage_delinquency"))

FormatNext ==
    \/ generate_labels
    \/ format_price_chart_data
    \/ format_revenue_chart_data
    \/ format_valuation_chart_data
    \/ format_treasury_chart_data
    \/ format_housing_inventory_chart_data
    \/ format_mortgage_delinquency_chart_data

FormatSpec == FormatInit /\ [][FormatNext]_vars

\* ------------------------------------ the normalizers on raw provider frames
\* raw observations: null / NaN, zero, a negative and a positive value
RawValues == { << >>, <<0>>, <<-6>>, <<10>> }

\* annual columns: a year before the window, last year, the current year
AnnualColumns(date) ==
    { [ year |-> y, value |-> v ] :
        y \in {date.year - 11, date.year - 1, date.year}, v \in RawValues }

\* quarterly columns (dated by the month their quarter ends in): a quarter
\* before the window, a quarter of last year, a quarter of the current year
QuarterlyColumns(date) ==
    { [ year |-> ym[1], month |-> ym[2], value |-> v ] :
        ym \in { <<date.year - 11, 12>>, <<date.year - 1, 6>>, <<date.year, 3>> },
        v \in RawValues }

\* frames of at most two columns, one column per date, in either order
Frames(cols) ==
    { << >> } \cup { <<c>> : c \in cols } \cup
    { p \in cols \X cols :
        [p[1] EXCEPT !.value = << >>] # [p[2] EXCEPT !.value = << >>] }

\* the trading days of the price history: one of last year's second
\* quarter, and in the current year one inside the third quarter, its last
\* day, and one of the fourth quarter
TradingDays(date) ==
    << [ year |-> date.year - 1, month |-> 5, day |-> 10 ],
       [ year |-> date.year, month |-> 8, day |-> 15 ],
       [ year |-> date.year, month |-> 9, day |-> 30 ],
       [ year |-> date.year, month |-> 10, day |-> 15 ] >>

\* price histories: per trading day no observation, or a close of 0.40 or
\* of 1.60 (in hundredths)
Hists(date) ==
    { { [ year |-> TradingDays(date)[i].year, month |-> TradingDays(date)[i].month,
          day |-> TradingDays(date)[i].day, close |-> c[i] ] :
          i \in { j \in DOMAIN TradingDays(date) : c[j] # 0 } } :
        c \in [ DOMAIN TradingDays(date) -> {0, 40, 160} ] }

\* one quarter column of the valuation inputs, dated by the end of its
\* quarter, and the price history
ValuationFrames(date) ==
    { [ year |-> date.year, month |-> md[1], day |-> md[2], hist |-> hist,
        net_income |-> ni, tangible_book_value |-> tbv,
        shares_outstanding |-> sh, total_debt |-> td, cash |-> ca,
        ebitda |-> eb ] :
        md \in { <<6, 30>>, <<9, 30>> }, hist \in Hists(date),
        ni \in { << >>, <<-5>>, <<20>> },
        tbv \in { << >>, <<100>> }, sh \in { << >>, <<0>>, <<10>> },
        td \in { << >>, <<30>> }, ca \in { << >>, <<5>> },
        eb \in { << >>, <<0>>, <<40>> } }

\* a normalizer is applied once, to one input
Normalize(fn, annual, quarterly, frame, output) ==
    /\ normalized' = [ fn |-> fn, annual |-> annual, quarterly |-> quarterly,
                       frame |-> frame, output |-> output ]
    /\ UNCHANGED <<store, now, nreq, last, inflight, stopped, formatted, calls, stocks, converted>>

\* get_stock_revenue_data(ticker, 10)
get_revenue_data_from_yahoo ==
    /\ normalized = NoNormalized
    /\ \E annual \in Frames(AnnualColumns(now)) :
          \E quarterly \in Frames(QuarterlyColumns(now)) :
              Normalize("revenue", annual, quarterly, NoFrame,
                        NormalizeFlow("revenue", annual, quarterly, now, 10))

\* get_stock_operating_income_data(ticker, 10)
get_operating_income_data_from_yahoo ==
    /\ normalized = NoNormalized
    /\ \E annual \in Frames(AnnualColumns(now)) :
          \E quarterly \in Frames(QuarterlyColumns(now)) :
              Normalize("operating_income", annual, quarterly, NoFrame,
                        NormalizeFlow("operating_income", annual, quarterly,
                                      now, 10))

get_valuation_data_from_yahoo ==
    /\ normalized = NoNormalized
    /\ \E frame \in ValuationFrames(now) :
          Normalize("valuation", << >>, << >>, frame, NormalizeValuation(frame))

\* process_quarterly_data(hist, ticker) of the price handlers
process_price_history ==
    /\ normalized = NoNormalized
    /\ \E hist \in Hists(now) :
          Normalize("price", << >>, << >>, [NoFrame EXCEPT !.hist = hist],
                    process_quarterly_data(hist, now))

NormalizeNext ==
    \/ process_price_history
    \/ get_revenue_data_from_yahoo
    \/ get_operating_income_data_from_yahoo
    \/ get_valuation_data_from_yahoo

NormalizeSpec == Init /\ [][NormalizeNext]_vars

\* ---------------------------------- the provider calls of one request
Range(seq) == { seq[i] : i \in DOMAIN seq }

\* a check (on a cache miss) or a refresh calls the adapter of its metric
CallProvider(kind, adapter, log) ==
    /\ nreq < MaxRequests
    /\ nreq' = nreq + 1
    /\ calls' = [ kind |-> kind, adapter |-> adapter, log |-> log ]
    /\ UNCHANGED <<store, now, last, inflight, stopped, formatted, normalized, stocks, converted>>

get_stock_price_data ==
    \E kind \in {"check", "refresh"}, res \in [ {"history", "info"} -> CallResults ] :
        CallProvider(kind, "price",
                     <<[ call |-> "history", result |-> res["history"] ]>> \o
                     ( IF res["history"] = "data"
                       THEN <<[ call |-> "info", result |-> res["info"] ]>> ELSE << >> ))

get_stock_revenue_data ==
    \E kind \in {"check", "refresh"}, res \in [ Range(RevenueStatements) -> CallResults ] :
        CallProvider(kind, "revenue", CallEach(RevenueStatements, res))

get_treasury_data_from_yahoo ==
    \E kind \in {"check", "refresh"}, res \in [ Range(TreasurySeries) -> CallResults ] :
        CallProvider(kind, "treasury", CallEach(TreasurySeries, res))

get_housing_inventory_data_from_fred ==
    \E kind \in {"check", "refresh"}, res \in [ Range(HousingSeries) -> CallResults ] :
        CallProvider(kind, "housing_inventory", TryInOrder(HousingSeries, res))

get_mortgage_delinquency_data_from_fred ==
    \E kind \in {"check", "refresh"}, res \in [ Range(MortgageSeries) -> CallResults ] :
        CallProvider(kind, "mortgage_delinquency", TryInOrder(MortgageSeries, res))

AdapterNext ==
    \/ get_stock_price_data
    \/ get_stock_revenue_data
    \/ get_treasury_data_from_yahoo
    \/ get_housing_inventory_data_from_fred
    \/ get_mortgage_delinquency_data_from_fred

AdapterSpec == Init /\ [][AdapterNext]_vars

\* ---------------------------------------------------------------- portfolio
\* PortfolioSpec: the portfolio file behind /api/stocks.  load_data returns
\* an empty list when the file is missing; every handler loads the file,
\* changes the list and saves it.  A stock is modelled by its id, name and
\* quantity (symbol is handled as name is, price as quantity is); request
\* bodies carry numeric quantities.
MaxStocks == 3

StockNames == { << >>, <<"a">>, <<"b">> }

StockQuantities == { << >>, <<1>>, <<2>> }

\* index of the first stock of the list with the id, 0 when there is none
FirstWithId(data, stock_id) ==
    IF \E i \in 1..Len(data) : data[i].id = stock_id
    THEN CHOOSE i \in 1..Len(data) :
            /\ data[i].id = stock_id
            /\ \A j \in 1..(i - 1) : data[j].id # stock_id
    ELSE 0

add_stock ==
    /\ Len(stocks) < MaxStocks
    /\ \E name \in StockNames, quantity \in StockQuantities :
          LET new_stock == [ id |-> Len(stocks) + 1,
                             name |-> name,
                             quantity |-> IF quantity = << >> THEN 0 ELSE quantity[1] ]
          IN stocks' = Append(stocks, new_stock)
    /\ UNCHANGED <<store, now, nreq, last, inflight, stopped, formatted, normalized, calls, converted>>

update_stock ==
    /\ \E stock_id \in 1..MaxStocks, name \in StockNames, quantity \in StockQuantities :
          LET i == FirstWithId(stocks, stock_id) IN
          stocks' = IF i = 0 THEN stocks
                    ELSE [stocks EXCEPT
                            ![i].name = IF name = << >> THEN @ ELSE name,
                            ![i].quantity = IF quantity = << >> THEN @ ELSE quantity[1]]
    /\ UNCHANGED <<store, now, nreq, last, inflight, stopped, formatted, normalized, calls, converted>>

delete_stock ==
    /\ \E stock_id \in 1..MaxStocks :
          LET i == FirstWithId(stocks, stock_id) IN
          stocks' = IF i = 0 THEN stocks
                    ELSE SubSeq(stocks, 1, i - 1) \o SubSeq(stocks, i + 1, Len(stocks))
    /\ UNCHANGED <<store, now, nreq, last, inflight, stopped, formatted, normalized, calls, converted>>

PortfolioNext ==
    \/ add_stock
    \/ update_stock
    \/ delete_stock

PortfolioSpec == Init /\ [][PortfolioNext]_vars

\* ------------------------------------------------------------- conversions
\* ConvertSpec applies the symbol mapping, the quarter mappings and the two
\* quarter key parsers to inputs drawn from small sets, and saves a series
\* of one quarter key through each parser; every behaviour makes one
\* conversion.
MaxTickerLen == 2

RECURSIVE SeqsUpTo(_, _)
SeqsUpTo(chars, n) ==
    IF n = 0 THEN { << >> }
    ELSE LET shorter == SeqsUpTo(chars, n - 1)
         IN shorter \cup { Append(s, c) : s \in shorter, c \in chars }

\* tickers: short ones over an upper-case letter, a lower-case letter, a
\* digit and a letter outside ASCII, the KOSDAQ codes and a KOSPI code
Tickers ==
    SeqsUpTo({"A", "b", "0", "U+AC00"}, MaxTickerLen) \cup kosdaq_stocks
        \cup { <<"0", "0", "5", "9", "3", "0">> }

\* keys handed to a save: a year part, a separator and a quarter part
SavedKeys ==
    { y \o sep \o q : y \in { << >>, format_int(2024) },
                      sep \in { << >>, <<"Q">>, <<"x">> },
                      q \in { << >>, <<"0">>, <<"3">>, <<"5">>, <<"1", "2">>, <<" ", "2">> } }

Convert(fn, input, output) ==
    /\ converted' = [fn |-> fn, input |-> input, output |-> output]
    /\ UNCHANGED <<now, nreq, last, inflight, stopped, formatted, normalized, calls, stocks>>

symbol_of_ticker ==
    /\ converted = NoConverted
    /\ \E ticker \in Tickers :
          Convert("symbol", ticker,
                  [symbol |-> convert_to_yahoo_symbol(ticker),
                   market |-> chart_market(ticker)])
    /\ UNCHANGED store

\* the years a normalizer keeps: year >= current_year - years
key_of_month ==
    /\ converted = NoConverted
    /\ \E year \in (now.year - 10)..now.year, month \in 1..12 :
          LET key == quarter_key(year, QuarterOfMonth(month)) IN
          Convert("quarter_key", <<year, month>>,
                  [quarter  |-> QuarterOfMonth(month),
                   listed   |-> quarter_by_month_list(month),
                   key      |-> key,
                   by_split |-> parse_key_by_split(key),
                   by_slice |-> parse_key_by_slice(key)])
    /\ UNCHANGED store

\* the save of a series with the one key: a key that does not parse raises,
\* the exception is caught and nothing is written
save_revenue_to_database ==
    /\ converted = NoConverted
    /\ \E key \in SavedKeys :
          LET parsed == parse_key_by_split(key) IN
          /\ Convert("save_revenue", key, parsed)
          /\ store' = IF parsed = << >> THEN store
                      ELSE SaveToDatabase(store, <<"A", "B">>, "revenue",
                                          (parsed[1] :> <<7>>), now).store

save_mortgage_delinquency_to_database ==
    /\ converted = NoConverted
    /\ \E key \in SavedKeys :
          LET parsed == parse_key_by_slice(key) IN
          /\ Convert("save_mortgage_delinquency", key, parsed)
          /\ store' = IF parsed = << >> THEN store
                      ELSE SaveToDatabase(store, Global, "mortgage_delinquency",
                                          (parsed[1] :> <<7>>), now).store

ConvertNext ==
    \/ symbol_of_ticker
    \/ key_of_month
    \/ save_revenue_to_database
    \/ save_mortgage_delinquency_to_database

ConvertSpec == Init /\ [][ConvertNext]_vars

\* ------------------------------------------------------------------ claims
\* a step that handles one request (Tick and stuttering leave nreq alone)
RequestStep == nreq' = nreq + 1

KeyOf(r) == <<r.entity, r.metric, r.year, r.quarter>>

StoredKeys(st) == { KeyOf(r) : r \in DOMAIN st }

\* number of stored rows (with multiplicity) that carry the key of r
CopiesOfKey(st, r) ==
    BagCardinality([ x \in { y \in DOMAIN st : KeyOf(y) = KeyOf(r) } |-> st[x] ])

\* the store holds a row of (entity, metric) tagged with the month of date
HasCurrentTag(st, entity, metric, date) ==
    \E r \in DOMAIN st :
        /\ r.entity = entity /\ r.metric = metric
        /\ r.cache_year = date.year /\ r.cache_month = date.month

\* C1: after any sequence of check and refresh requests, across month
\* changes, the store holds at most one row per (entity, metric, year,
\* quarter).
C1_UniqueQuarterRows ==
    \A r \in DOMAIN store : CopiesOfKey(store, r) = 1

\* a save has met a key that was already stored and the store holds rows
C1_Witness ==
    /\ last.skipped_count > 0
    /\ store # EmptyBag
    /\ C1_UniqueQuarterRows

\* C2: for every metric, save is insert-if-absent: a row whose key already
\* exists keeps its value, cache_year, cache_month and last_updated.  A check
\* has no clear step, so every row stored before it must be stored,
\* unchanged, after it; a refresh may only lose the rows its clear step
\* removes (rows of its entity and metric tagged with the current month).
C2_SaveNeverUpdates ==
    [][ RequestStep =>
          \A r \in DOMAIN store :
              \/ r \in DOMAIN store'
              \/ /\ last'.kind = "refresh"
                 /\ r.entity = last'.entity /\ r.metric = last'.metric
                 /\ r.cache_year = now.year /\ r.cache_month = now.month ]_vars

\* C3: the freshness gate of a check answers true iff the store holds a row
\* of that entity and metric tagged with the current year and month; rows of
\* an earlier month never make the metric fresh.
C3_FreshIffCurrentMonthRow ==
    [][ (RequestStep /\ last'.kind = "check" /\ last'.trace # << >>) =>
          ( last'.cached = "yes"
              <=> HasCurrentTag(store, last'.entity, last'.metric, now) ) ]_vars

\* a check was answered "not fresh" although rows of an earlier month exist
C3_Witness ==
    /\ last.kind = "check" /\ last.cached = "no" /\ last.date = now
    /\ \E r \in DOMAIN store :
          /\ r.entity = last.entity /\ r.metric = last.metric
          /\ <<r.cache_year, r.cache_month>> # <<now.year, now.month>>

\* C4: a check of a fresh (entity, metric) makes no provider call and does
\* not insert, update or delete: the store is left as it was.
C4_FreshCheckOnlyReads ==
    [][ ( /\ RequestStep /\ last'.kind = "check" /\ last'.trace # << >>
          /\ HasCurrentTag(store, last'.entity, last'.metric, now) ) =>
          ( /\ last'.provider = "not called"
            /\ \A i \in DOMAIN last'.trace : last'.trace[i] \notin {"fetch", "save"}
            /\ store' = store ) ]_vars

\* a check was served from the cache
C4_Witness ==
    /\ last.kind = "check" /\ last.cached = "yes" /\ last.status = 200
    /\ HasCurrentTag(store, last.entity, last.metric, last.date)

\* provider fetches a handled request made
Fetches(resp) == Cardinality({ i \in DOMAIN resp.trace : resp.trace[i] = "fetch" })

\* position of a step in a trace (0 when the step was not taken)
StepPos(trace, step) ==
    IF \E i \in DOMAIN trace : trace[i] = step
    THEN CHOOSE i \in DOMAIN trace : trace[i] = step
    ELSE 0

SameMetricSameMonth(first, second) ==
    /\ second.entity = first.entity /\ second.metric = first.metric
    /\ second.date.year = first.date.year
    /\ second.date.month = first.date.month

\* C5: two checks of the same (entity, metric), one after the other in the
\* same month, make exactly one provider fetch in total: the second is always
\* a cache hit.  Stated for a first check that found the metric not fresh
\* and was answered successfully from the provider's data.
C5_SecondCheckIsCacheHit ==
    [][ ( /\ RequestStep
          /\ last.kind = "check" /\ last.status = 200 /\ last.cached = "no"
          /\ last'.kind = "check"
          /\ SameMetricSameMonth(last, last') ) =>
          ( /\ last'.cached = "yes"
            /\ Fetches(last) + Fetches(last') = 1 ) ]_vars

\* C6: a successful refresh followed immediately by a check of the same
\* (entity, metric) in the same month returns the chart_data the refresh
\* returned.
C6_CheckAfterRefreshSameChart ==
    [][ ( /\ RequestStep
          /\ last.kind = "refresh" /\ last.status = 200
          /\ last'.kind = "check"
          /\ SameMetricSameMonth(last, last') ) =>
          ( /\ last'.status = 200
            /\ last'.chart_data = last.chart_data ) ]_vars

\* C7: the deleted_count of a refresh is the number of rows of that entity
\* and metric that carried the current (cache_year, cache_month) tag right
\* before it, and its clear step removes exactly those rows.
C7_DeletedCountIsCurrentMonthRows ==
    [][ ( /\ RequestStep /\ last'.kind = "refresh"
          /\ last'.deleted_count # << >> ) =>
          LET tagged == { r \in DOMAIN store :
                            /\ r.entity = last'.entity /\ r.metric = last'.metric
                            /\ r.cache_year = now.year
                            /\ r.cache_month = now.month }
              cleared == ClearCache(store, last'.entity, last'.metric, now).store
          IN /\ last'.deleted_count =
                   <<BagCardinality([ r \in tagged |-> store[r] ])>>
             /\ DOMAIN cleared = DOMAIN store \ tagged
             /\ \A r \in DOMAIN cleared : cleared[r] = store[r] ]_vars

\* a refresh reported that it deleted rows while rows of another month stay
C7_Witness ==
    /\ last.kind = "refresh" /\ last.status = 200
    /\ last.deleted_count # << >> /\ last.deleted_count[1] > 0

\* C8 (as claimed): within one refresh the steps occur in the order clear,
\* provider fetch, save: the rows of the current month are deleted before the
\* provider is called.
C8_ClearThenFetchThenSave ==
    (last.kind = "refresh" /\ StepPos(last.trace, "clear") > 0) =>
        /\ StepPos(last.trace, "clear") < StepPos(last.trace, "fetch")
        /\ StepPos(last.trace, "fetch") < StepPos(last.trace, "save")

\* C8 (amended): within one refresh the steps occur in the order provider
\* fetch, clear, save: the provider is called first, and a refresh that does
\* not get to its clear step leaves the store as it was.
C8_FetchThenClearThenSave ==
    [][ (RequestStep /\ last'.kind = "refresh") =>
          /\ ( StepPos(last'.trace, "clear") > 0 =>
                 /\ 0 < StepPos(last'.trace, "fetch")
                 /\ StepPos(last'.trace, "fetch") < StepPos(last'.trace, "clear")
                 /\ StepPos(last'.trace, "clear") < StepPos(last'.trace, "save") )
          /\ ( StepPos(last'.trace, "clear") = 0 => store' = store ) ]_vars

\* a refresh fetched, then deleted rows, then wrote rows
C8_Witness ==
    /\ last.kind = "refresh" /\ last.provider = "data"
    /\ last.deleted_count # << >> /\ last.deleted_count[1] > 0
    /\ last.saved_count > 0

\* C9: whenever the provider call of a refresh fails or returns no data, the
\* refresh deletes no row and leaves every stored row unchanged, for the
\* stock metrics and for every macro metric (fallback table or not).
C9_FailedFetchDeletesNothing ==
    [][ ( /\ RequestStep /\ last'.kind = "refresh"
          /\ last'.provider = "failed" ) =>
          \A r \in DOMAIN store : r \in DOMAIN store' /\ store'[r] = store[r] ]_vars

\* C10: a check never deletes a row: the stored (entity, metric, year,
\* quarter) keys after a check are a superset of those before it, on the
\* cache-hit path, the cache-miss path and the error paths.
C10_CheckNeverDeletes ==
    [][ (RequestStep /\ last'.kind = "check") =>
          StoredKeys(store) \subseteq StoredKeys(store') ]_vars

\* a check missed the cache, saved rows, and rows of an earlier month of the
\* same metric are still stored
C10_Witness ==
    /\ last.kind = "check" /\ last.cached = "no" /\ last.saved_count > 0
    /\ last.date = now
    /\ \E r \in DOMAIN store :
          /\ r.entity = last.entity /\ r.metric = last.metric
          /\ r.cache_month # now.month

\* C11: after a successful refresh of (entity, metric), every stored row of
\* that entity and metric whose quarter key the provider returned in that
\* refresh holds the value the provider returned, rows first cached in an
\* earlier month included.
C11_RefreshStoresFetchedValues ==
    [][ ( /\ RequestStep /\ last'.kind = "refresh" /\ last'.status = 200
          /\ last'.provider = "data" ) =>
          \A r \in DOMAIN store' :
              ( /\ r.entity = last'.entity /\ r.metric = last'.metric
                /\ <<r.year, r.quarter>> \in DOMAIN last'.fetched ) =>
              r.value = last'.fetched[<<r.year, r.quarter>>] ]_vars

\* C12: a refresh of (entity A, metric M) deletes only rows of A and M tagged
\* with the current (cache_year, cache_month): every row of another entity,
\* of another metric, or of A and M with the tag of a different month is
\* stored, unchanged, after it.
C12_RefreshTouchesOnlyCurrentMonthRows ==
    [][ (RequestStep /\ last'.kind = "refresh") =>
          \A r \in DOMAIN store :
              ~( /\ r.entity = last'.entity /\ r.metric = last'.metric
                 /\ r.cache_year = now.year /\ r.cache_month = now.month ) =>
              (r \in DOMAIN store' /\ store'[r] = store[r]) ]_vars

C14_GapUntilNextSuccessfulRefresh ==
    [][ /\ ( RequestStep /\ last'.kind = "refresh" /\ last'.status = 0 ) =>
              /\ store' = store (-) stopped'.deleted
              /\ \A r \in DOMAIN stopped'.deleted : r \notin DOMAIN store'
        /\ ~RequestStep =>
              \A r \in DOMAIN stopped.deleted :
                  r \notin DOMAIN store => r \notin DOMAIN store'
        /\ ( RequestStep /\ last'.kind = "refresh" /\ last'.status = 200 ) =>
              \A k \in DOMAIN last'.fetched :
                  Existing(store', last'.entity, last'.metric, k) # EmptyBag
      ]_vars

\* a refresh stopped after deleting rows, and a later refresh of the same
\* (entity, metric) completed and stored the quarters that had been deleted
C14_Witness ==
    /\ stopped.deleted # EmptyBag
    /\ last.kind = "refresh" /\ last.status = 200 /\ last.saved_count > 0
    /\ last.entity = stopped.entity /\ last.metric = stopped.metric
    /\ \A r \in DOMAIN stopped.deleted :
          /\ <<r.year, r.quarter>> \in DOMAIN last.fetched
          /\ Existing(store, r.entity, r.metric, <<r.year, r.quarter>>) # EmptyBag

\* ---- label axis and formatters (FormatSpec)
Axis == formatted.result.labels

StockFormatters == {"price", "revenue", "valuation"}

MacroFormatters == {"treasury", "housing_inventory", "mortgage_delinquency"}

\* the state shows labels made by generate_standard_labels
OnStandardAxis == formatted.fn \in {"generate_standard_labels"} \cup StockFormatters

StrictlyIncreasing(labels) ==
    \A i \in 1..(Len(labels) - 1) : KeyLess(labels[i], labels[i + 1])

OnOrAfter(date, month, day) ==
    date.month > month \/ (date.month = month /\ date.day >= day)

\* number of labels of the current year on the axis
CurrentYearQuarters == Cardinality({ i \in DOMAIN Axis : Axis[i][1] = now.year })

CurrentQuarter == ((now.month - 1) \div 3) + 1

\* C15 (as claimed): the label axis generated on 2025-11-20 has 16 labels of
\* prior years followed by 2025Q1, 2025Q2, 2025Q3: 19 labels, strictly
\* increasing.
C15_NineteenLabelsOn20251120 ==
    ( /\ formatted.fn = "generate_standard_labels"
      /\ now = [year |-> 2025, month |-> 11, day |-> 20] ) =>
        /\ Len(Axis) = 19
        /\ \A i \in 1..16 : Axis[i][1] < 2025
        /\ SubSeq(Axis, 17, 19) = << <<2025, 1>>, <<2025, 2>>, <<2025, 3>> >>
        /\ StrictlyIncreasing(Axis)

\* C15 (amended): the label axis generated on 2025-11-20 has the 12 labels
\* 2022Q1..2024Q4 of the three prior years followed by 2025Q1, 2025Q2,
\* 2025Q3: 15 labels, strictly increasing.
C15_FifteenLabelsOn20251120 ==
    ( /\ formatted.fn = "generate_standard_labels"
      /\ now = [year |-> 2025, month |-> 11, day |-> 20] ) =>
        /\ Len(Axis) = 15
        /\ \A i \in 1..12 :
              Axis[i] = <<2022 + ((i - 1) \div 4), ((i - 1) % 4) + 1>>
        /\ SubSeq(Axis, 13, 15) = << <<2025, 1>>, <<2025, 2>>, <<2025, 3>> >>
        /\ StrictlyIncreasing(Axis)

\* the labels were generated on 2025-11-20
C15_Witness ==
    /\ formatted.fn = "generate_standard_labels"
    /\ now = [year |-> 2025, month |-> 11, day |-> 20]
    /\ Axis # << >>

C17_AxisOrderedCompleteTruncated ==
    OnStandardAxis =>
        /\ StrictlyIncreasing(Axis)
        /\ \A i, j \in DOMAIN Axis : i # j => Axis[i] # Axis[j]
        /\ Axis # << >>
        /\ Axis[1][1] < now.year
        /\ \A y \in Axis[1][1]..(now.year - 1), q \in 1..4 :
              \E i \in DOMAIN Axis : Axis[i] = <<y, q>>
        /\ \A i \in DOMAIN Axis :
              ~KeyLess(<<now.year, CurrentQuarter>>, Axis[i])

\* labels generated in the last quarter of a year, with quarters of the
\* current year on the axis
C17_Witness ==
    /\ formatted.fn = "generate_standard_labels"
    /\ CurrentQuarter = 4
    /\ CurrentYearQuarters > 0

\* C18: at any date every metric's chart (stock metrics, valuation ratios,
\* macro indicators) carries the same labels list: the labels of each chart
\* are those of the price chart of that date.
C18_AllChartsShareLabels ==
    formatted.fn \in StockFormatters \cup MacroFormatters =>
        Axis = FormatStockChart(EmptyBag, now, "price", << >>).labels

\* the value column a series is taken from
ColumnOf(fn, name) ==
    CASE fn = "valuation" ->
            CHOOSE j \in DOMAIN ValuationSeries : ValuationSeries[j] = name
      [] fn \in MacroFormatters ->
            CHOOSE j \in DOMAIN MacroSeries(fn) : MacroSeries(fn)[j] = name
      [] OTHER -> 1

\* the chart value of a stored row, in hundredths
FormattedValue(fn, ticker, name, row) ==
    CASE fn = "price"     -> 100 * row.value[1]
      [] fn = "revenue"   -> IF is_english_ticker(ticker)
                             THEN RoundDiv(row.value[1], 10) ELSE row.value[1]
      [] fn = "valuation" -> RoundDiv(row.value[ColumnOf(fn, name)], 10)
      [] OTHER            -> row.value[ColumnOf(fn, name)]

\* the rows given to the formatter whose quarter key is the label
RowsAt(label) ==
    { r \in DOMAIN formatted.data : <<r.year, r.quarter>> = label }

\* C19: in every chart each value array has the length of labels, and the
\* value at index i is the formatted value of the row whose quarter key is
\* labels[i], or the gap sentinel (0 or None) when the formatter was given
\* no such row; rows whose key is not on the axis appear nowhere.
C19_ValuesAlignedWithLabels ==
    formatted.fn \in StockFormatters \cup MacroFormatters =>
        \A name \in DOMAIN formatted.result.series :
            LET values == formatted.result.series[name]
            IN /\ Len(values) = Len(Axis)
               /\ \A i \in DOMAIN Axis :
                     IF RowsAt(Axis[i]) # {}
                     THEN \E r \in RowsAt(Axis[i]) :
                             values[i] = <<FormattedValue(formatted.fn,
                                             formatted.ticker, name, r)>>
                     ELSE values[i] \in { <<0>>, << >> }

\* a chart was made from rows on the axis and rows off the axis
C19_Witness ==
    /\ formatted.fn \in StockFormatters \cup MacroFormatters
    /\ \E r \in DOMAIN formatted.data :
          \E i \in DOMAIN Axis : Axis[i] = <<r.year, r.quarter>>
    /\ \E r \in DOMAIN formatted.data :
          \A i \in DOMAIN Axis : Axis[i] # <<r.year, r.quarter>>
    /\ \E i \in DOMAIN Axis : RowsAt(Axis[i]) = {}

\* C20 (as claimed): for a label with no stored value the formatter gives 0
\* for the flow/stock metrics (revenue and the like) and None for price, the
\* valuation ratios and every macro indicator.
C20_GapNoneForPriceAndRatios ==
    formatted.fn \in StockFormatters \cup MacroFormatters =>
        \A name \in DOMAIN formatted.result.series :
            \A i \in DOMAIN Axis :
                RowsAt(Axis[i]) = {} =>
                    formatted.result.series[name][i] =
                        IF formatted.fn = "revenue" THEN <<0>> ELSE << >>

\* C20 (amended): for a label with no stored value the formatter gives 0 for
\* every stock metric (price, revenue and the like, the valuation ratios)
\* and None for every macro indicator.
C20_GapZeroForStockNoneForMacro ==
    formatted.fn \in StockFormatters \cup MacroFormatters =>
        \A name \in DOMAIN formatted.result.series :
            \A i \in DOMAIN Axis :
                RowsAt(Axis[i]) = {} =>
                    formatted.result.series[name][i] =
                        IF formatted.fn \in StockFormatters THEN <<0>> ELSE << >>

\* a price chart with a quarter that has a row and a quarter that has none
C20_Witness ==
    /\ formatted.fn = "price"
    /\ \E i \in DOMAIN Axis : RowsAt(Axis[i]) # {}
    /\ \E i \in DOMAIN Axis :
          /\ RowsAt(Axis[i]) = {}
          /\ formatted.result.series["prices"][i] = <<0>>

\* ------------------------------------------------------------------
\* rows of the store a response is about
RowsOf(st, resp) ==
    Select(st, LAMBDA r : r.entity = resp.entity /\ r.metric = resp.metric)

\* a stored revenue (millions) in the unit of its market, in hundredths:
\* value / 1e9 for a US ticker, value / 1e8 for a KR ticker, 2 decimals
RevenueInMarketUnit(ticker, v) ==
    IF is_english_ticker(ticker) THEN RoundDiv(v, 10) ELSE v

\* C21: every revenue chart a check (cache hit or miss) or a refresh answers
\* shows, at each label it has a value for, a stored value of that quarter
\* divided by 1e9 for a US ticker and by 1e8 for a KR ticker, rounded to 2
\* decimals.
C21_MonetaryUnitByTicker ==
    [][ (RequestStep /\ last'.metric = "revenue" /\ last'.status = 200) =>
          LET chart == last'.chart_data
              rows  == RowsOf(store', last')
          IN \A i \in DOMAIN chart.labels :
                \/ chart.series["revenues"][i] = <<0>>
                \/ \E r \in DOMAIN rows :
                      /\ <<r.year, r.quarter>> = chart.labels[i]
                      /\ chart.series["revenues"][i]
                            = <<RevenueInMarketUnit(last'.entity, r.value[1])>>
      ]_vars

\* the stock_code of the request was empty or white space only
BlankStockCode(resp) == resp.metric \in StockMetrics /\ resp.entity = << >>

\* C26: a check or refresh request whose stock_code is empty or only white
\* space is answered with status 400 and no chart, without any step of the
\* handler (no gate, no provider call, no clear, no save), and the store is
\* left as it was.
C26_BlankStockCodeIs400 ==
    [][ (RequestStep /\ BlankStockCode(last')) =>
          /\ last'.status = 400
          /\ last'.chart_data = NoChart
          /\ last'.trace = << >>
          /\ last'.provider = "not called"
          /\ store' = store
      ]_vars

\* a blank stock_code was answered while the store held rows
C26_Witness ==
    /\ BlankStockCode(last)
    /\ last.kind \in {"check", "refresh"}
    /\ last.status = 400
    /\ last.provider = "not called"
    /\ store # EmptyBag

\* the provider call of the request raised or returned nothing
ProviderUnavailable(resp) == resp.provider = "failed"

C28_CacheHitChartsEveryStoredRow ==
    [][ (RequestStep /\ last'.kind = "check" /\ last'.cached = "yes") =>
          LET chart  == last'.chart_data
              rows   == RowsOf(store, last')
              ticker == IF last'.metric \in StockMetrics THEN last'.entity
                        ELSE << >>
          IN \A i \in DOMAIN chart.labels :
                HasRowAt(rows, chart.labels[i]) =>
                    \E r \in DOMAIN rows :
                        /\ <<r.year, r.quarter>> = chart.labels[i]
                        /\ \A n \in DOMAIN chart.series :
                              chart.series[n][i]
                                 = FormatChart(SetToBag({r}), last'.date,
                                               last'.metric, ticker).series[n][i]
      ]_vars

\* C29: in the save of every metric, an insert that raises a store error is
\* a skip: the rows stored so far stay, the save loop goes on to the
\* remaining quarters of its batch and ends as a save that ran through.
C29_InsertErrorIsSkip ==
    [][ \A t \in Threads :
          inflight'[t].raised > inflight[t].raised =>
              LET rest == inflight[t].pending \ {FirstKey(inflight[t].pending)}
              IN /\ store' = store
                 /\ inflight'[t].pending = rest
                 /\ inflight'[t].pc = IF rest = {} THEN "query" ELSE "lookup"
      ]_vars

\* ------------------------------------------------------------------
FlowNormalizers == {"revenue", "operating_income"}

FracEq(a, b) == a[1] * b[2] = b[1] * a[2]

NonNullNonZero(obs) == obs # << >> /\ obs[1] # 0

\* an observation with a value the metric can take: not null, not zero and,
\* for revenue, positive
Usable(fn, obs) == NonNullNonZero(obs) /\ (fn = "revenue" => obs[1] > 0)

\* the lookback window of the handlers is 10 years
InLookback(year) == year >= now.year - 10

AnnualObs == { normalized.annual[i] : i \in DOMAIN normalized.annual }

QuarterlyObs == { normalized.quarterly[i] : i \in DOMAIN normalized.quarterly }

KeyOfColumn(c) == <<c.year, QuarterOfMonth(c.month)>>

\* the quarter keys of every year the input frames speak of
InputKeys ==
    { <<y, q>> : y \in { c.year : c \in AnnualObs \cup QuarterlyObs }, q \in 1..4 }

\* C22: for every annual observation with a usable value v, dated in a year Y
\* inside the lookback window and before the current year, with no usable
\* quarterly observation in Y, the output holds exactly v/4 at each of the
\* four quarters of Y, and the four values sum to v.
C22_AnnualSplitIsExactQuarter ==
    normalized.fn \in FlowNormalizers =>
        \A c \in AnnualObs :
            ( /\ Usable(normalized.fn, c.value)
              /\ InLookback(c.year) /\ c.year < now.year
              /\ ~ \E d \in QuarterlyObs :
                      d.year = c.year /\ Usable(normalized.fn, d.value) ) =>
                LET out == normalized.output
                IN /\ \A q \in 1..4 :
                         /\ <<c.year, q>> \in DOMAIN out
                         /\ FracEq(out[<<c.year, q>>], <<c.value[1], 4>>)
                   /\ FracEq(FracAdd(FracAdd(out[<<c.year, 1>>], out[<<c.year, 2>>]),
                                     FracAdd(out[<<c.year, 3>>], out[<<c.year, 4>>])),
                             Frac(c.value[1]))

\* an annual value that is no multiple of 4 was split over last year's
\* quarters, next to a quarterly observation of another year
C22_Witness ==
    /\ normalized.fn \in FlowNormalizers
    /\ \E c \in AnnualObs :
          /\ c.year = now.year - 1 /\ c.value = <<10>>
          /\ \A d \in QuarterlyObs : d.year # c.year
          /\ \A q \in 1..4 : <<c.year, q>> \in DOMAIN normalized.output
    /\ QuarterlyObs # {}

\* C23: for every quarter key for which the frames hold both a usable annual
\* observation of its year (a past year of the window) and a usable
\* quarterly observation of the quarter, the output at the key is the
\* quarterly observation, not the annual value divided by 4, whatever the
\* order of the columns.
C23_QuarterlyWinsOverAnnualSplit ==
    normalized.fn \in FlowNormalizers =>
        \A c \in AnnualObs, d \in QuarterlyObs :
            ( /\ c.year = d.year
              /\ Usable(normalized.fn, c.value) /\ Usable(normalized.fn, d.value)
              /\ InLookback(c.year) /\ c.year < now.year ) =>
                /\ KeyOfColumn(d) \in DOMAIN normalized.output
                /\ normalized.output[KeyOfColumn(d)] = Frac(d.value[1])
                /\ ~ FracEq(normalized.output[KeyOfColumn(d)], <<c.value[1], 4>>)

\* last year has a usable annual and a usable quarterly observation: the
\* quarter of the latter holds it, another quarter holds the annual share
C23_Witness ==
    /\ normalized.fn \in FlowNormalizers
    /\ \E c \in AnnualObs, d \in QuarterlyObs :
          /\ c.year = d.year /\ c.year = now.year - 1
          /\ Usable(normalized.fn, c.value) /\ Usable(normalized.fn, d.value)
          /\ normalized.output[KeyOfColumn(d)] = Frac(d.value[1])
          /\ \E q \in 1..4 :
                /\ <<c.year, q>> # KeyOfColumn(d)
                /\ FracEq(normalized.output[<<c.year, q>>], <<c.value[1], 4>>)

\* key has an observation in the window that satisfies Kept: a quarterly
\* one of its quarter, or an annual one of its (past) year
HasObservation(key, Kept(_)) ==
    \/ \E d \in QuarterlyObs :
          KeyOfColumn(d) = key /\ InLookback(d.year) /\ Kept(d.value)
    \/ \E c \in AnnualObs :
          /\ c.year = key[1] /\ InLookback(c.year) /\ c.year < now.year
          /\ Kept(c.value)

\* C24 as stated: for every flow / stock metric normalizer, a quarter has an
\* entry if and only if an in-window observation of it is not null and not
\* exactly zero (a negative one included).
C24_EmittedIffNonNullNonZero ==
    normalized.fn \in FlowNormalizers =>
        \A key \in InputKeys :
            key \in DOMAIN normalized.output
                <=> HasObservation(key, NonNullNonZero)

\* C24, amended: a quarter has an entry if and only if an in-window
\* observation of it is kept, where the revenue normalizer keeps the
\* observations that are not null and greater than zero and the other
\* normalizers keep those that are not null and not zero.
C24_EmittedIffKept ==
    normalized.fn \in FlowNormalizers =>
        \A key \in InputKeys :
            key \in DOMAIN normalized.output
                <=> HasObservation(key, LAMBDA obs : Usable(normalized.fn, obs))

\* the revenue normalizer was given a negative quarterly observation of the
\* window and a usable one: only the latter has an entry
C24_Witness ==
    /\ normalized.fn = "revenue"
    /\ \E d \in QuarterlyObs :
          /\ InLookback(d.year) /\ d.value = <<-6>>
          /\ KeyOfColumn(d) \notin DOMAIN normalized.output
    /\ \E d \in QuarterlyObs :
          /\ InLookback(d.year) /\ d.value = <<10>>
          /\ KeyOfColumn(d) \in DOMAIN normalized.output

ZeroShares ==
    /\ normalized.fn = "valuation"
    /\ normalized.output.avg_price # << >>
    /\ normalized.frame.shares_outstanding = <<0>>

\* C25 as stated: when shares_outstanding is 0 for a quarter, no division by
\* zero is made, per is None, and EV/EBITDA is defined and emitted when
\* EBITDA > 0.
C25_ZeroSharesKeepsEvEbitda ==
    ZeroShares =>
        /\ ~ normalized.output.zero_division
        /\ normalized.output.per = << >>
        /\ ( normalized.frame.ebitda # << >> /\ normalized.frame.ebitda[1] > 0 ) =>
               ( normalized.output.ev_ebitda # << >> /\ normalized.output.emitted )

\* C25, amended: when shares_outstanding is 0 for a quarter, no division by
\* zero is made, per, pbr and ev_ebitda are all None and no entry is
\* written for the quarter, whatever EBITDA is.
C25_ZeroSharesYieldsNoRatio ==
    ZeroShares =>
        /\ ~ normalized.output.zero_division
        /\ normalized.output.per = << >>
        /\ normalized.output.pbr = << >>
        /\ normalized.output.ev_ebitda = << >>
        /\ ~ normalized.output.emitted

\* a quarter with a price, net income, EBITDA > 0 and zero shares
C25_Witness ==
    /\ ZeroShares
    /\ normalized.frame.ebitda = <<40>>
    /\ normalized.frame.net_income = <<20>>
    /\ ~ normalized.output.emitted

\* C30: an entry for a quarter of the current year exists in the output
\* only if the quarterly frame holds a usable observation of that quarter.
C30_NoAnnualSplitInCurrentYear ==
    normalized.fn \in FlowNormalizers =>
        \A q \in 1..4 :
            <<now.year, q>> \in DOMAIN normalized.output =>
                \E d \in QuarterlyObs :
                    /\ KeyOfColumn(d) = <<now.year, q>>
                    /\ Usable(normalized.fn, d.value)

\* the annual frame holds a usable value of the current year and one of
\* last year: last year is split, the current year has no entry
C30_Witness ==
    /\ normalized.fn \in FlowNormalizers
    /\ \E c \in AnnualObs : c.year = now.year /\ Usable(normalized.fn, c.value)
    /\ \A q \in 1..4 : <<now.year, q>> \notin DOMAIN normalized.output
    /\ \A q \in 1..4 : <<now.year - 1, q>> \in DOMAIN normalized.output

\* C31: for every quarter, PER is non-null only if net income and shares
\* outstanding are present and net_income / shares_outstanding > 0, PBR only
\* if tangible_book_value / shares_outstanding > 0, EV/EBITDA only if
\* EBITDA > 0; an entry is emitted for the quarter exactly when at least one
\* of the three was computed, and the record stored for it carries the
\* three columns, a ratio that is not defined as null.
C31_RatiosNullUnlessPositive ==
    normalized.fn = "valuation" =>
        LET f   == normalized.frame
            out == normalized.output
            sh  == f.shares_outstanding
            rec == ValuationRecord(out)
        IN /\ out.per # << >> =>
                 /\ f.net_income # << >> /\ sh # << >> /\ sh[1] # 0
                 /\ f.net_income[1] * sh[1] > 0
                 /\ FracEq(out.per[1], FracDiv(FracMul(out.avg_price[1], Frac(sh[1])),
                                                Frac(f.net_income[1])))
           /\ out.pbr # << >> =>
                 /\ f.tangible_book_value # << >> /\ sh # << >> /\ sh[1] # 0
                 /\ f.tangible_book_value[1] * sh[1] > 0
                 /\ FracEq(out.pbr[1], FracDiv(FracMul(out.avg_price[1], Frac(sh[1])),
                                                Frac(f.tangible_book_value[1])))
           /\ out.ev_ebitda # << >> =>
                 /\ f.ebitda # << >> /\ f.ebitda[1] > 0
           /\ out.emitted <=>
                 (out.per # << >> \/ out.pbr # << >> \/ out.ev_ebitda # << >>)
           /\ Len(rec) = (IF out.emitted THEN 1 ELSE 0)
           /\ out.emitted =>
                 /\ DOMAIN rec[1] = {"pbr", "per", "ev_ebitda"}
                 /\ rec[1].per = out.per /\ rec[1].pbr = out.pbr
                 /\ rec[1].ev_ebitda = out.ev_ebitda

\* a quarter whose PER is defined while its PBR and EV/EBITDA are null: the
\* entry is emitted with two null columns
C31_Witness ==
    /\ normalized.fn = "valuation"
    /\ normalized.output.emitted
    /\ normalized.output.per # << >>
    /\ normalized.output.pbr = << >>
    /\ normalized.output.ev_ebitda = << >>
    /\ normalized.frame.ebitda = <<0>>

\* the daily closes of the price history dated inside calendar quarter key
ClosesOfCalendarQuarter(key) ==
    { h \in normalized.frame.hist :
        h.year = key[1] /\ QuarterOfMonth(h.month) = key[2] }

\* C32: the average price used for the valuation ratios of quarter key(Y, Q)
\* is the mean of the daily closes dated inside calendar quarter Q of year
\* Y (none when that quarter has no close), as in the price normalizer.
C32_ValuationPriceIsCalendarQuarterMean ==
    normalized.fn = "valuation" =>
        LET closes == ClosesOfCalendarQuarter(normalized.output.key)
            avg    == normalized.output.avg_price
        IN IF closes = {} THEN avg = << >>
           ELSE /\ avg # << >>
                /\ FracEq(avg[1], <<SumClose(closes), 100 * Cardinality(closes)>>)

\* the quarters process_quarterly_data goes through
PriceWindow ==
    { k \in { <<y, q>> : y \in (now.year - 10)..now.year, q \in 1..4 } :
        k[1] < now.year \/ 3 * k[2] < now.month }

\* C33: for every quarter in the window, the price normalizer emits the
\* arithmetic mean of all daily closes dated in that calendar quarter and
\* nothing for a quarter without daily close; no emitted or stored price
\* has the value 0.
C33_PriceIsQuarterMeanNeverZero ==
    normalized.fn = "price" =>
        \A key \in PriceWindow :
            LET closes == ClosesOfCalendarQuarter(key)
                out    == normalized.output
            IN IF closes = {} THEN key \notin DOMAIN out
               ELSE /\ key \in DOMAIN out
                    /\ FracEq(Frac(out[key][1]),
                              <<SumClose(closes), 100 * Cardinality(closes)>>)
                    /\ out[key][1] # 0
                    /\ stock_price(out[key]) # 0

NoCallTwice ==
    \A i, j \in DOMAIN calls.log : i # j => calls.log[i].call # calls.log[j].call

\* C34 as stated: during one check or refresh request each external series
\* or statement is requested at most once, and a failed call is never
\* followed by another provider call in the same request.
C34_NoCallAfterFailedCall ==
    /\ NoCallTwice
    /\ \A i \in DOMAIN calls.log :
          calls.log[i].result # "data" => i = Len(calls.log)

\* C34, amended: during one check or refresh request each external series
\* or statement is requested at most once, so a failed call is never
\* repeated; a failed call is followed only by calls for other series or
\* statements: the treasury and revenue adapters make both of their calls
\* whatever the first did, the price adapter asks for info only after a
\* history with data, and the mortgage adapter asks for the next series id
\* only after the one before failed.
C34_NoCallRepeated ==
    /\ NoCallTwice
    /\ calls.adapter \in {"treasury", "revenue"} => Len(calls.log) = 2
    /\ calls.adapter = "price" =>
          \A i \in DOMAIN calls.log : i < Len(calls.log) => calls.log[i].result = "data"
    /\ calls.adapter \in {"mortgage_delinquency", "housing_inventory"} =>
          \A i \in DOMAIN calls.log : i < Len(calls.log) => calls.log[i].result # "data"

\* a mortgage request whose first two series failed and asked for the third
C34_Witness ==
    /\ calls.adapter = "mortgage_delinquency"
    /\ Len(calls.log) = 3
    /\ calls.log[1].result = "raised"
    /\ calls.log[2].result = "empty"

SameKey(a, b) ==
    /\ a.entity = b.entity /\ a.metric = b.metric
    /\ a.year = b.year /\ a.quarter = b.quarter

CacheTag(r) == <<r.cache_year, r.cache_month>>

\* C35: every row a save inserts carries the calendar year and month of the
\* time of the save as its cache tag, and the cache tag of a stored row
\* stays as it is for as long as the row is in the store.
C35_CacheTagSetOnceAtInsert ==
    [][ RequestStep =>
          /\ \A r \in DOMAIN store' :
                r \notin DOMAIN store => CacheTag(r) = <<now.year, now.month>>
          /\ \A r \in DOMAIN store :
                (\E n \in DOMAIN store' : SameKey(n, r)) =>
                    \E n \in DOMAIN store' :
                        SameKey(n, r) /\ CacheTag(n) = CacheTag(r)
      ]_vars


\* C36: after any sequence of add_stock, update_stock and delete_stock
\* requests no two stocks of the portfolio list have the same id, so an
\* update or a delete by id addresses exactly one stock.
C36_StockIdsAreUnique ==
    \A i, j \in DOMAIN stocks : stocks[i].id = stocks[j].id => i = j


AsciiLetters == {"A", "B", "a", "b"}

PureAsciiAlphabetic(ticker) ==
    ticker # << >> /\ \A i \in 1..Len(ticker) : ticker[i] \in AsciiLetters

HasLowerCase(s) == \E i \in 1..Len(s) : s[i] \in {"a", "b"}

EndsWith(s, suffix) ==
    /\ Len(s) >= Len(suffix)
    /\ SubSeq(s, Len(s) - Len(suffix) + 1, Len(s)) = suffix

\* the market the provider symbol stands for: a Korean exchange suffix or none
SymbolMarket(symbol) ==
    IF EndsWith(symbol, <<".", "K", "S">>) \/ EndsWith(symbol, <<".", "K", "Q">>)
    THEN "KR" ELSE "US"

\* C37: the provider symbol of a pure ASCII alphabetic ticker is the ticker
\* in upper case without suffix; the symbol of every other ticker is the
\* ticker followed by .KQ when it is in the KOSDAQ list and by .KS
\* otherwise; the market of the symbol is the market of the chart unit rule.
C37_SymbolByTickerAndMarketAgrees ==
    converted.fn = "symbol" =>
        LET ticker == converted.input
            symbol == converted.output.symbol
        IN /\ PureAsciiAlphabetic(ticker) =>
                 /\ Len(symbol) = Len(ticker)
                 /\ ~HasLowerCase(symbol)
                 /\ \A i \in 1..Len(ticker) :
                       symbol[i] = ticker[i] \/ <<ticker[i], symbol[i]>> \in {<<"a", "A">>, <<"b", "B">>}
           /\ ~PureAsciiAlphabetic(ticker) =>
                 symbol = ticker \o (IF ticker \in kosdaq_stocks
                                     THEN <<".", "K", "Q">> ELSE <<".", "K", "S">>)
           /\ SymbolMarket(symbol) = converted.output.market

\* a pure ASCII alphabetic ticker with a lower-case letter was mapped
C37_Witness ==
    /\ converted.fn = "symbol"
    /\ PureAsciiAlphabetic(converted.input)
    /\ HasLowerCase(converted.input)
    /\ converted.output.symbol # converted.input

\* C38: for every year the normalizers keep and every month 1..12 the
\* quarter ((month-1)//3)+1 lies in 1..4 and is the quarter of the month
\* lists, and both parsers give back (year, quarter) from the key built of
\* them.
C38_QuarterAndKeyRoundTrip ==
    converted.fn = "quarter_key" =>
        LET year  == converted.input[1]
            month == converted.input[2]
            out   == converted.output
        IN /\ out.quarter \in 1..4
           /\ out.quarter = out.listed
           /\ out.by_split = << <<year, out.quarter>> >>
           /\ out.by_slice = << <<year, out.quarter>> >>

C38_Witness ==
    /\ converted.fn = "quarter_key"
    /\ converted.input[2] = 12
    /\ converted.output.quarter = 4
    /\ converted.output.by_slice # << >>
    /\ converted.output.by_split # << >>

WellFormedKey(key) ==
    /\ Len(key) >= 3
    /\ key[Len(key)] \in {"1", "2", "3", "4"}
    /\ key[Len(key) - 1] = "Q"
    /\ \A i \in 1..(Len(key) - 2) : key[i] \in Range(DigitChars)

Saves == {"save_revenue", "save_mortgage_delinquency"}

====
